---- MODULE Spec2Model ----
(***************************************************************************)
(* Model of the snaplogic-cache CloudFlare Worker: the fetch handler of    *)
(* src/unnamed/part_002 (the current revision of src/src/index.ts).        *)
(*                                                                         *)
(* Text is a sequence of one-character strings, or of tokens where the     *)
(* code never looks inside them.  An optional value (a header that may be  *)
(* absent, a body that may be null) is a sequence of length 0 or 1.        *)
(***************************************************************************)
EXTENDS Integers, Sequences, FiniteSets, TLC

VARIABLES
  env,     \* the env object the runtime hands to every invocation
  cache,   \* caches.default: cache key -> stored response (a run lies within
           \* the ttl of its entries: nothing expires)
  req,     \* per invocation: the inbound request, None while the slot is idle
  pc,      \* per invocation: "idle", "cache", "fetch" or "done"
  key,     \* per invocation: cacheKey once derived
  up,      \* per invocation: the upstream call: "none", "inflight", "settled"
  how,     \* per invocation: what decided the response
  got,     \* per invocation: the value of `response`, the result of the race
  resp,    \* per invocation: the response returned to the client
  del,     \* per invocation: the un-awaited cache.delete: "none", "pending", "applied"
  put,     \* per invocation: the cache.put given to ctx.waitUntil
  stored,  \* per invocation: the response handed to cache.put
  cnt,     \* per invocation: how many lookups, deletes, puts, upstream calls it issued
  kin,     \* key derivation on its own: a pair of requests
  kout,    \* key derivation on its own: their verdicts and keys
  vin,     \* validation on its own: a request and the env it arrives under
  vout,    \* validation on its own: the validator's verdict
  oin,     \* the response path on its own: what decided the invocation
  oout,    \* the response path on its own: the client response and the cache write
  tin,     \* forwarding on its own: a request and the env it arrives under
  tout,    \* forwarding on its own: per invocation, the verdict and the outbound request
  cin,     \* configuration on its own: a request and the env as deployed
  cout,    \* configuration on its own: per invocation, what it saw and decided
  stale    \* per invocation: a no-cache request invalidated the key after the
           \* upstream call of this one had started

vars == <<env, cache, req, pc, key, up, how, got, resp, del, put, stored, cnt,
          kin, kout, vin, vout, oin, oout, tin, tout, cin, cout, stale>>

mainVars == <<env, cache, req, pc, key, up, how, got, resp, del, put, stored, cnt>>

keyVars == <<kin, kout>>

valVars == <<vin, vout>>

respVars == <<oin, oout>>

fwdVars == <<tin, tout>>

cfgVars == <<cin, cout>>

ordVars == <<stale>>

pureVars == <<keyVars, valVars, respVars, fwdVars, cfgVars, ordVars>>

----------------------------------------------------------------------------
(* Bounds of the model *)

\* number of requests handled in a run; they may overlap in any way
NReq == 2

\* longest path (after the leading "/") and longest body used for key derivation
MaxPath == 2

MaxBody == 2

----------------------------------------------------------------------------
(* JavaScript values and strings *)

None == <<>>

Some(v) == <<v>>

\* x || '' for an optional string
OrEmpty(o) == IF o = None THEN <<>> ELSE o[1]

\* a test of presence alone: only null is falsy
FalsyAbsentOnly(o) == o = None

\* !x for an optional string: null and '' are both falsy
Falsy(o) == o = None \/ o[1] = <<>>

LowerAlpha == <<"a","b","c","d","e","f","g","h","i","j","k","l","m",
                "n","o","p","q","r","s","t","u","v","w","x","y","z">>

UpperAlpha == <<"A","B","C","D","E","F","G","H","I","J","K","L","M",
                "N","O","P","Q","R","S","T","U","V","W","X","Y","Z">>

UpperChar(c) ==
  IF \E i \in 1..26 : LowerAlpha[i] = c
    THEN UpperAlpha[CHOOSE i \in 1..26 : LowerAlpha[i] = c]
    ELSE c

LowerChar(c) ==
  IF \E i \in 1..26 : UpperAlpha[i] = c
    THEN LowerAlpha[CHOOSE i \in 1..26 : UpperAlpha[i] = c]
    ELSE c

toUpperCase(s) == [i \in 1..Len(s) |-> UpperChar(s[i])]

toLowerCase(s) == [i \in 1..Len(s) |-> LowerChar(s[i])]

includes(s, p) ==
  \E i \in 0..(Len(s) - Len(p)) : SubSeq(s, i + 1, i + Len(p)) = p

startsWith(s, p) == Len(p) <= Len(s) /\ SubSeq(s, 1, Len(p)) = p

endsWith(s, p) ==
  Len(p) <= Len(s) /\ SubSeq(s, Len(s) - Len(p) + 1, Len(s)) = p

\* all sequences over alphabet A of length at most n
SeqsUpTo(A, n) == UNION {[1..k -> A] : k \in 0..n}

----------------------------------------------------------------------------
(* Method names *)

GET == <<"G","E","T">>

HEAD == <<"H","E","A","D">>

POST == <<"P","O","S","T">>

PUT == <<"P","U","T">>

PATCH == <<"P","A","T","C","H">>

DELETE == <<"D","E","L","E","T","E">>

TRACE == <<"T","R","A","C","E">>

\* /^POST|PUT|PATCH|HEAD|GET|DELETE$/ on the upper-cased method: the anchors
\* bind to the first and the last alternative only
MethodAllowed(method) ==
  LET m == toUpperCase(method) IN
    \/ startsWith(m, POST)
    \/ includes(m, PUT)
    \/ includes(m, PATCH)
    \/ includes(m, HEAD)
    \/ includes(m, GET)
    \/ endsWith(m, DELETE)

\* a pattern that leaves PATCH out
MethodHasBodyNoPatch(method) == toUpperCase(method) \in {POST, PUT}

\* /^(POST|PUT|PATCH)$/ on the upper-cased method
MethodHasBody(method) == toUpperCase(method) \in {POST, PUT, PATCH}

----------------------------------------------------------------------------
(* Responses *)

Headers(ct, cc, ex) == [content_type |-> ct, cache_control |-> cc, expires |-> ex]

\* the JSON document {http_status_code, response_map: {error_list: [{message}]}}
EnvelopeDoc(status_code, message) ==
  [threads |-> None,
   http_status_code |-> Some(status_code),
   error_list |-> Some([message |-> Some(message),
                        http_status_code |-> None,
                        nested_message |-> None])]

\* an error response that leaves the content-type header out
errorResponseUntyped(status_code, message) ==
  [status |-> status_code,
   headers |-> Headers(None, None, None),
   body |-> [kind |-> "json", doc |-> EnvelopeDoc(status_code, message)],
   src |-> "proxy"]

errorResponse(status_code, message) ==
  [status |-> status_code,
   headers |-> Headers(Some("application/json"), None, None),
   body |-> [kind |-> "json", doc |-> EnvelopeDoc(status_code, message)],
   src |-> "proxy"]

----------------------------------------------------------------------------
(* Environment variables: loosely typed JavaScript values *)

Undef == <<"undef">>

NaN == <<"nan">>

Num(n) == <<"num", n>>

Str(s) == <<"str", s>>

Bool(b) == <<"bool", b>>

\* the number 1e21, the least whose toString() is in exponent form ('1e+21')
Huge == <<"huge">>

\* the decimal digits of 1e21
HugeDigits == "1000000000000000000000"

IsNum(v) == v[1] = "num"

\* parseInt of the strings the model's environments use
parseIntStr(s) ==
  CASE s = "60" -> Num(60)
    [] s = "61" -> Num(61)
    [] s = "60s" -> Num(60)
    [] s = "443" -> Num(443)
    [] s = "8443" -> Num(8443)
    [] s = "70000" -> Num(70000)
    [] s = "100" -> Num(100)
    [] s = "2" -> Num(2)
    [] s = "1" -> Num(1)
    [] s = "0" -> Num(0)
    [] s = "-1" -> Num(-1)
    [] s = HugeDigits -> Huge
    [] OTHER -> NaN

\* parseInt(v.toString()) for a value that has a toString: an integer below
\* 1e21 prints as its digits, which parse to it again; 1e21 prints as '1e+21',
\* of which parseInt reads the '1'; NaN prints as 'NaN'
parseInt(v) ==
  CASE v[1] = "num" -> v
    [] v[1] = "str" -> parseIntStr(v[2])
    [] v[1] = "huge" -> Num(1)
    [] OTHER -> NaN

\* v.toString() === 'true'
IsTrueString(v) == (v[1] = "bool" /\ v[2]) \/ (v[1] = "str" /\ v[2] = "true")

\* JavaScript truthiness of an environment value
Truthy(v) ==
  CASE v[1] = "undef" -> FALSE
    [] v[1] = "nan" -> FALSE
    [] v[1] = "num" -> v[2] # 0
    [] v[1] = "huge" -> TRUE
    [] v[1] = "str" -> v[2] # ""
    [] v[1] = "bool" -> v[2]

\* /^https?$/i
IsHttpProtocol(v) == v[1] = "str" /\ v[2] \in {"http", "https", "HTTP", "HTTPS"}

\* lines 136-144: the in-place type coercions, up to the first that throws
CoerceEnv(e) ==
  LET e1 == IF e.requireHTTPS # Undef
              THEN [e EXCEPT !.requireHTTPS = Bool(IsTrueString(e.requireHTTPS))]
              ELSE e
      e2 == [e1 EXCEPT !.targetPort = parseInt(e.targetPort)]
      e3 == [e2 EXCEPT !.ttl = parseInt(e.ttl)]
      e4 == IF e.allowBinaryData # Undef
              THEN [e3 EXCEPT !.allowBinaryData = Bool(IsTrueString(e.allowBinaryData))]
              ELSE e3
      e5 == [e4 EXCEPT !.requestTimeout =
                IF Truthy(e.requestTimeout) THEN parseInt(e.requestTimeout) ELSE NaN]
  IN  IF e.targetPort = Undef THEN [env |-> e1, threw |-> TRUE]
      ELSE IF e.ttl = Undef THEN [env |-> e2, threw |-> TRUE]
      ELSE [env |-> e5, threw |-> FALSE]

\* lines 147-160: the checks that throw
EnvInvalid(e) ==
  \/ ~Truthy(e.targetHostname)
  \/ (IsNum(e.targetPort) /\ (e.targetPort[2] < 0 \/ e.targetPort[2] > 65535))
  \/ e.targetPort = Huge
  \/ ~IsHttpProtocol(e.targetProtocol)
  \/ ~Truthy(e.ttl)
  \/ (IsNum(e.ttl) /\ e.ttl[2] <= 0)
  \/ (IsNum(e.requestTimeout) /\ e.requestTimeout[2] < 0)

\* lines 163-170: the defaults
DefaultEnv(e) ==
  [e EXCEPT
     !.allowBinaryData = IF e.allowBinaryData = Undef THEN Bool(FALSE) ELSE @,
     !.requestTimeout = IF e.requestTimeout = NaN \/ (IsNum(e.requestTimeout) /\ e.requestTimeout[2] = 0)
                          THEN Num(100) ELSE @,
     !.requireHTTPS = IF e.requireHTTPS = Undef THEN Bool(TRUE) ELSE @]

\* lines 135-170 as a whole: the environment object afterwards, and whether
\* control left the try block by an exception
NormalizeEnv(e) ==
  LET c == CoerceEnv(e) IN
    IF c.threw THEN c
    ELSE IF EnvInvalid(c.env) THEN [env |-> c.env, threw |-> TRUE]
    ELSE [env |-> DefaultEnv(c.env), threw |-> FALSE]

----------------------------------------------------------------------------
(* Requests and URLs *)

Url(protocol, hostname, port, pathname, bearer_token) ==
  [protocol |-> protocol, hostname |-> hostname, port |-> port,
   pathname |-> pathname, bearer_token |-> bearer_token]

RequestHeaders(authorization, cache_control, content_type, accept_encoding) ==
  [authorization |-> authorization, cache_control |-> cache_control,
   content_type |-> content_type, accept_encoding |-> accept_encoding]

Request(method, url, headers, body) ==
  [method |-> method, url |-> url, headers |-> headers, body |-> body]

\* the serialised URL (request.url, url.toString()); "|" is not percent-encoded
\* in a path or a query
href(u) ==
  <<u.protocol, "//", u.hostname>>
    \o (IF u.port = None THEN <<>> ELSE <<":", u.port[1]>>)
    \o u.pathname
    \o (IF u.bearer_token = None THEN <<>>
        ELSE <<"?bearer_token=">> \o u.bearer_token[1])

DefaultPort(protocol) == IF protocol = "https:" THEN 443 ELSE 80

\* url.protocol = v for v matching /^https?$/i
SetProtocol(u, v) ==
  LET p == IF v[2] \in {"https", "HTTPS"} THEN "https:" ELSE "http:" IN
    [u EXCEPT !.protocol = p,
              !.port = IF u.port = Some(DefaultPort(p)) THEN None ELSE @]

\* url.port = v.toString(): a string that is not a port number is ignored
SetPort(u, v) ==
  IF IsNum(v)
    THEN [u EXCEPT !.port = IF v[2] = DefaultPort(u.protocol) THEN None ELSE Some(v[2])]
    ELSE u

\* lines 263-268
TargetUrl(request, e) ==
  LET u1 == SetProtocol(request.url, e.targetProtocol)
      u2 == [u1 EXCEPT !.hostname = e.targetHostname[2]]
      u3 == SetPort(u2, e.targetPort)
  IN  IF e.targetPathPrefix # None /\ e.targetPathPrefix[1] # <<>>
        THEN [u3 EXCEPT !.pathname = e.targetPathPrefix[1] \o @]
        ELSE u3

----------------------------------------------------------------------------
(* Validation, lines 172-256 *)

JSONMedia == "application/json"

FormMedia == "application/x-www-form-urlencoded"

\* the pattern without its closing anchor: anything may follow the media type
ContentTypeMatchUnanchored(contentType) ==
  contentType[1] \in {JSONMedia, FormMedia}

\* /^application\/(x-www-form-urlencoded|json)(;.*)?$/ on a content-type given
\* as its media type followed by the tokens of its parameters
ContentTypeMatch(contentType) ==
  /\ contentType[1] \in {JSONMedia, FormMedia}
  /\ (Len(contentType) = 1 \/ contentType[2] = ";")

Digits == {"0", "1", "2", "3", "4", "5", "6", "7", "8", "9"}

\* a parser that accepts every non-empty text
JSONParsesAnything(text) == text # <<>>

\* request.clone().json() succeeds.  Bodies are texts without quotes, braces,
\* brackets, letters, signs or white space; of these the JSON texts are the
\* unsigned integers.
JSONParses(text) ==
  /\ text # <<>>
  /\ \A i \in 1..Len(text) : text[i] \in Digits
  /\ (Len(text) > 1 => text[1] # "0")

\* None when the request passes, else the response of the first failed check
Validate(request, e) ==
  LET contentType == OrEmpty(request.headers.content_type) IN
  IF Falsy(request.headers.authorization) /\ Falsy(request.url.bearer_token)
    THEN Some(errorResponse(401, "Mismatched bearer token"))
  ELSE IF e.requireHTTPS[2] /\ request.url.protocol # "https:"
    THEN Some(errorResponse(426, "HTTPS is required"))
  ELSE IF ~MethodAllowed(request.method)
    THEN Some(errorResponse(405, "Method not allowed"))
  ELSE IF request.body # None
    THEN IF ~MethodHasBody(request.method)
           THEN Some(errorResponse(406, "Body data not expected"))
         ELSE IF contentType = <<>>
           THEN Some(errorResponse(406, "Content-Type is required for request type"))
         ELSE IF ~e.allowBinaryData[2]
           THEN IF ~ContentTypeMatch(contentType)
                  THEN Some(errorResponse(406, "Content-Type not acceptable for request type"))
                ELSE IF contentType[1] = JSONMedia /\ ~JSONParses(request.body[1])
                  THEN Some(errorResponse(400, "JSON body not valid"))
                ELSE None
         ELSE None
  ELSE IF MethodHasBody(request.method)
    THEN Some(errorResponse(406, "Body data expected"))
  ELSE None

----------------------------------------------------------------------------
(* Cache key, lines 105-132 *)

\* SHA-256 as a hex string: an injective function of the bytes
SHA256Hex(bytes) == <<"sha256:">> \o bytes

\* the bytes that are hashed: the method, the URL of the request object and its body
KeyBuffer(request) ==
  toUpperCase(request.method) \o <<"|">> \o href(request.url) \o <<"|">>
    \o OrEmpty(request.body)

\* a key that takes in the credential of the request
getCacheKeyWithCredential(url, request) ==
  <<url.protocol, "//", url.hostname>>
    \o (IF url.port = None THEN <<>> ELSE <<":", url.port[1]>>)
    \o <<"/", "?">> \o SHA256Hex(KeyBuffer(request))
    \o OrEmpty(request.headers.authorization)

\* url is the rewritten target URL, request the inbound request
getCacheKey(url, request) ==
  <<url.protocol, "//", url.hostname>>
    \o (IF url.port = None THEN <<>> ELSE <<":", url.port[1]>>)
    \o <<"/", "?">> \o SHA256Hex(KeyBuffer(request))

----------------------------------------------------------------------------
(* The cache gateway, lines 273-288 and 316-330 *)

NoCacheToken == <<"n","o","-","c","a","c","h","e">>

\* a handler that forgets toLowerCase()
HasNoCacheCaseSensitive(request) ==
  includes(OrEmpty(request.headers.cache_control), NoCacheToken)

\* (request.headers.get('cache-control') || '').toLowerCase().includes('no-cache')
HasNoCache(request) ==
  includes(toLowerCase(OrEmpty(request.headers.cache_control)), NoCacheToken)

\* cache.match(k)
Match(c, k) == IF k \in DOMAIN c THEN Some(c[k]) ELSE None

\* a cache that keeps the entry it has
CachePutIfAbsent(c, k, response) ==
  [x \in DOMAIN c \cup {k} |-> IF x \in DOMAIN c THEN c[x] ELSE response]

\* the cache after cache.put(k, response) has taken effect
CachePut(c, k, response) ==
  [x \in DOMAIN c \cup {k} |-> IF x = k THEN response ELSE c[x]]

\* the cache after cache.delete(k) has taken effect
CacheDelete(c, k) == [x \in DOMAIN c \ {k} |-> c[x]]

\* a handler that stores whatever the race produced
ShouldCacheAny(response) == response.status \in 200..599

\* line 316: response.status === 200
ShouldCache(response) == response.status = 200

\* 'max-age=' + env.ttl
MaxAge(ttl) == <<"max-age=", IF ttl = Huge THEN "1e+21" ELSE ttl[2]>>

\* a handler that sets cache-control and leaves expires alone
CacheResponseKeepExpires(response, e) ==
  [response EXCEPT !.headers.cache_control = Some(MaxAge(e.ttl))]

\* a copy that loses the content-type of the upstream response
CacheResponseDropsType(response, e) ==
  [response EXCEPT !.headers.content_type = None,
                   !.headers.cache_control = Some(MaxAge(e.ttl)),
                   !.headers.expires = None]

\* lines 318-327: the copy of the response that is stored and returned
CacheResponseOf(response, e) ==
  [response EXCEPT !.headers.cache_control = Some(MaxAge(e.ttl)),
                   !.headers.expires = None]

----------------------------------------------------------------------------
(* Normalisation of upstream errors, lines 331-404 and 405-433 *)

\* an un-nesting that prefers the outer status to the nested one
UnnestOuterFirst(response, doc) ==
  LET e0 == doc.error_list[1] IN
    IF e0.nested_message # None /\ e0.nested_message[1] # ""
      THEN Some(errorResponse(
             IF doc.http_status_code # None /\ doc.http_status_code[1] # 0
               THEN doc.http_status_code[1]
             ELSE IF e0.http_status_code[1] # 0 THEN e0.http_status_code[1]
             ELSE 500,
             e0.nested_message[1]))
      ELSE None

\* the nested-error rule, lines 383-400
Unnest(response, doc) ==
  LET e0 == doc.error_list[1] IN
    IF e0.nested_message # None /\ e0.nested_message[1] # ""
      THEN Some(errorResponse(
             IF e0.http_status_code[1] # 0 THEN e0.http_status_code[1]
             ELSE IF doc.http_status_code # None /\ doc.http_status_code[1] # 0
               THEN doc.http_status_code[1]
             ELSE 500,
             e0.nested_message[1]))
      ELSE None

\* a test for a non-empty threads array
HasThreadsNonEmpty(doc) == doc.threads = Some("[1]")

\* json.threads is truthy, line 363
HasThreads(doc) == doc.threads # None /\ doc.threads[1] # "null"

\* a test for a missing message
EmptyMessageAbsent(doc) ==
  doc.error_list # None /\ doc.error_list[1].message = None

\* error_list[0]?.message === '', lines 368-372
EmptyMessage(doc) ==
  doc.error_list # None /\ doc.error_list[1].message = Some("")

\* a wrapping that always answers 500
WrapTextAs500(response) == errorResponse(500, response.body.text)

\* line 346: the body that is not JSON, read as text and wrapped
WrapText(response) == errorResponse(response.status, response.body.text)

\* a catch block whose switch has no case for ECONNRESET
CatchResponseNoReset(err) ==
  IF err.message = "fetch failed" /\ err.cause # None
    THEN IF err.cause[1] \in {"ENOTFOUND", "ECONNREFUSED", "ECONNABORTED"}
           THEN errorResponse(503, "Service Unavailable")
         ELSE IF err.cause[1] \in {"ETIMEDOUT", "UND_ERR_CONNECT_TIMEOUT",
                                   "UND_ERR_HEADERS_TIMEOUT",
                                   "EHOSTUNREACH", "EAI_AGAIN"}
           THEN errorResponse(504, "Gateway Timeout")
         ELSE errorResponse(502, "Bad Gateway")
    ELSE errorResponse(500, "Proxy Error")

\* the catch block, lines 405-433
CatchResponse(err) ==
  IF err.message = "fetch failed" /\ err.cause # None
    THEN IF err.cause[1] \in {"ENOTFOUND", "ECONNREFUSED", "ECONNABORTED"}
           THEN errorResponse(503, "Service Unavailable")
         ELSE IF err.cause[1] \in {"ETIMEDOUT", "UND_ERR_CONNECT_TIMEOUT",
                                   "UND_ERR_HEADERS_TIMEOUT", "ECONNRESET",
                                   "EHOSTUNREACH", "EAI_AGAIN"}
           THEN errorResponse(504, "Gateway Timeout")
         ELSE errorResponse(502, "Bad Gateway")
    ELSE errorResponse(500, "Proxy Error")

\* a constructor that accepts every status
ResponseThrowsNever(status) == FALSE

\* new Response(body, {status}) with a body, line 78: a RangeError for a
\* status outside 200..599, a TypeError for a status that allows no body
ResponseThrows(status) == status \notin 200..599 \/ status \in {204, 205, 304}

\* what new Response throws
ResponseError == [message |-> "Response", cause |-> None]

\* errorResponse called in the try block, outside the inner try of line 345:
\* what new Response throws is caught at line 405
tryErrorResponse(response) ==
  IF ResponseThrows(response.status) THEN CatchResponse(ResponseError) ELSE response

\* lines 331-404 for a response whose status is not 200; the errorResponse
\* of line 346 is inside the inner try, whose catch answers for it
NormalizeError(response) ==
  IF response.headers.content_type # Some("application/json") THEN response
  ELSE IF response.body.kind = "undecodable"
    THEN errorResponse(500, "Error decoding response from server")
  ELSE IF response.body.kind = "text"
    THEN IF ResponseThrows(WrapText(response).status)
           THEN errorResponse(500, "Error decoding response from server")
           ELSE WrapText(response)
  ELSE LET doc == response.body.doc IN
    IF HasThreads(doc)
      THEN errorResponse(500, "Pipeline exited")
    ELSE IF EmptyMessage(doc)
      THEN tryErrorResponse(
             errorResponse(response.status, "Server returned empty response error message"))
    ELSE IF /\ doc.error_list # None
            /\ doc.error_list[1].http_status_code # None
            /\ doc.error_list[1].http_status_code[1] # 0
            /\ Unnest(response, doc) # None
      THEN tryErrorResponse(Unnest(response, doc)[1])
    ELSE response

----------------------------------------------------------------------------
(* Inputs of the handler *)

Reqs == 1..NReq

Token == <<"t">>

MixedNoCache == <<"N","o","-","C","a","c","h","e">>

JSONType == Some(<<JSONMedia>>)

\* method, protocol, authorization, cache-control, content-type, body: a GET
\* with and without no-cache, a POST, and one request failing each check of
\* the validator while asking for no-cache
MainShapes ==
  { <<GET, "https:", Some(Token), None, None, None>>,
    <<GET, "https:", Some(Token), Some(MixedNoCache), None, None>>,
    <<POST, "https:", Some(Token), None, JSONType, Some(<<"1">>)>>,
    <<GET, "https:", None, Some(MixedNoCache), None, None>>,
    <<GET, "http:", Some(Token), Some(MixedNoCache), None, None>>,
    <<TRACE, "https:", Some(Token), Some(MixedNoCache), None, None>>,
    <<POST, "https:", Some(Token), Some(MixedNoCache), JSONType, None>>,
    <<POST, "https:", Some(Token), Some(MixedNoCache), JSONType, Some(<<"|">>)>> }

MainRequests ==
  { Request(sh[1], Url(sh[2], "a", None, <<"/">>, None),
            RequestHeaders(sh[3], sh[4], sh[5], None), sh[6]) : sh \in MainShapes }

UpstreamResponse(status, headers, body) ==
  [status |-> status, headers |-> headers, body |-> body, src |-> "upstream"]

TextBody(t) == [kind |-> "text", text |-> t]

\* what the upstream may answer
MainUpstream ==
  { UpstreamResponse(200, Headers(Some("text/plain"), Some(<<"no-store">>), Some("tomorrow")),
                     TextBody("v1")),
    UpstreamResponse(200, Headers(Some("text/plain"), None, None), TextBody("v2")),
    UpstreamResponse(500, Headers(Some("text/plain"), Some(<<"no-store">>), Some("tomorrow")),
                     TextBody("oops")) }

FetchError(cause) == [message |-> "fetch failed", cause |-> cause]

\* what a failing upstream call may throw
MainErrors == { FetchError(Some("ECONNREFUSED")) }

\* the environment of the README's defaults, with the given ttl
Env0(t) ==
  [ttl |-> t, targetProtocol |-> Str("https"), targetHostname |-> Str("t"),
   targetPort |-> Str("443"), targetPathPrefix |-> None, requireHTTPS |-> Undef,
   allowBinaryData |-> Undef, requestTimeout |-> Undef]

MainEnvs == { Env0(t) : t \in {Str("60"), Num(61)} }

NoCount == [lookup |-> 0, delete |-> 0, put |-> 0, upstream |-> 0]

----------------------------------------------------------------------------
(* The handler *)

Init ==
  /\ env \in MainEnvs
  /\ cache = <<>>
  /\ req = [r \in Reqs |-> None]
  /\ pc = [r \in Reqs |-> "idle"]
  /\ key = [r \in Reqs |-> None]
  /\ up = [r \in Reqs |-> "none"]
  /\ how = [r \in Reqs |-> "none"]
  /\ got = [r \in Reqs |-> None]
  /\ resp = [r \in Reqs |-> None]
  /\ del = [r \in Reqs |-> "none"]
  /\ put = [r \in Reqs |-> "none"]
  /\ stored = [r \in Reqs |-> None]
  /\ cnt = [r \in Reqs |-> NoCount]
  /\ kin = <<>>
  /\ kout = <<>>
  /\ vin = <<>>
  /\ vout = <<>>
  /\ oin = <<>>
  /\ oout = <<>>
  /\ tin = <<>>
  /\ tout = <<>>
  /\ cin = <<>>
  /\ cout = <<>>
  /\ stale = [r \in Reqs |-> FALSE]

\* the Error thrown by lines 135-170
ConfigError == [message |-> "config", cause |-> None]

\* an exception of lines 135-170 reaches the catch block
Throw(r) ==
  /\ resp' = [resp EXCEPT ![r] = Some(CatchResponse(ConfigError))]
  /\ how' = [how EXCEPT ![r] = "threw"]
  /\ pc' = [pc EXCEPT ![r] = "done"]
  /\ UNCHANGED <<key, del, cnt>>

\* a handler that invalidates the cache before it validates the request
RejectAfterInvalidate(r, q, response) ==
  /\ resp' = [resp EXCEPT ![r] = Some(response)]
  /\ how' = [how EXCEPT ![r] = "rejected"]
  /\ pc' = [pc EXCEPT ![r] = "done"]
  /\ IF HasNoCache(q)
       THEN /\ del' = [del EXCEPT ![r] = "pending"]
            /\ cnt' = [cnt EXCEPT ![r].delete = @ + 1]
            /\ key' = [key EXCEPT ![r] = Some(getCacheKey(TargetUrl(q, env'), q))]
       ELSE UNCHANGED <<key, del, cnt>>

\* lines 176-256: a failed check returns its response at once
Reject(r, q, response) ==
  /\ resp' = [resp EXCEPT ![r] = Some(response)]
  /\ how' = [how EXCEPT ![r] = "rejected"]
  /\ pc' = [pc EXCEPT ![r] = "done"]
  /\ UNCHANGED <<key, del, cnt>>

\* lines 258-271: the target URL is built and the cache key derived
Accept(r, q, e) ==
  /\ key' = [key EXCEPT ![r] = Some(getCacheKey(TargetUrl(q, e), q))]
  /\ pc' = [pc EXCEPT ![r] = "cache"]
  /\ UNCHANGED <<resp, how, del, cnt>>

\* lines 134-271: the request arrives, the environment is normalised, the
\* request is validated and its cache key derived.  The awaits in between
\* (request.clone().json(), arrayBuffer(), digest) read the request only, so
\* the stretch is one step.  Requests are numbered in the order of their
\* arrival.
Receive(r, q) ==
  /\ pc[r] = "idle"
  /\ \A o \in Reqs : o < r => pc[o] # "idle"
  /\ LET n == NormalizeEnv(env)
         v == Validate(q, n.env)
     IN  /\ env' = n.env
         /\ req' = [req EXCEPT ![r] = Some(q)]
         /\ IF n.threw THEN Throw(r)
            ELSE IF v # None THEN Reject(r, q, v[1])
            ELSE Accept(r, q, n.env)
  /\ UNCHANGED <<cache, up, got, put, stored, pureVars>>

\* lines 305-306: the upstream call is issued and the timer armed
StartFetch(r) ==
  /\ up' = [up EXCEPT ![r] = "inflight"]
  /\ pc' = [pc EXCEPT ![r] = "fetch"]

\* lines 277-282: no-cache: cache.delete is called and not awaited, there is
\* no lookup, and the handler goes on to the upstream call
Bypass(r) ==
  /\ pc[r] = "cache"
  /\ HasNoCache(req[r][1])
  /\ del' = [del EXCEPT ![r] = "pending"]
  /\ cnt' = [cnt EXCEPT ![r].delete = @ + 1, ![r].upstream = @ + 1]
  /\ StartFetch(r)
  /\ UNCHANGED <<env, cache, req, key, how, got, resp, put, stored, pureVars>>

\* a handler that answers from the cache and refreshes from the upstream as well
LookupHitRefetch(r) ==
  /\ pc[r] = "cache"
  /\ ~HasNoCache(req[r][1])
  /\ Match(cache, key[r][1]) # None
  /\ resp' = [resp EXCEPT ![r] = Match(cache, key[r][1])]
  /\ how' = [how EXCEPT ![r] = "hit"]
  /\ cnt' = [cnt EXCEPT ![r].lookup = @ + 1, ![r].upstream = @ + 1]
  /\ pc' = [pc EXCEPT ![r] = "done"]
  /\ up' = [up EXCEPT ![r] = "inflight"]
  /\ UNCHANGED <<env, cache, req, key, got, del, put, stored, pureVars>>

\* lines 284-288: cache.match finds the key: the stored response is returned
LookupHit(r) ==
  /\ pc[r] = "cache"
  /\ ~HasNoCache(req[r][1])
  /\ Match(cache, key[r][1]) # None
  /\ resp' = [resp EXCEPT ![r] = Match(cache, key[r][1])]
  /\ how' = [how EXCEPT ![r] = "hit"]
  /\ cnt' = [cnt EXCEPT ![r].lookup = @ + 1]
  /\ pc' = [pc EXCEPT ![r] = "done"]
  /\ UNCHANGED <<env, cache, req, key, up, got, del, put, stored, pureVars>>

\* lines 284-306: cache.match finds nothing: on to the upstream call
LookupMiss(r) ==
  /\ pc[r] = "cache"
  /\ ~HasNoCache(req[r][1])
  /\ Match(cache, key[r][1]) = None
  /\ cnt' = [cnt EXCEPT ![r].lookup = @ + 1, ![r].upstream = @ + 1]
  /\ StartFetch(r)
  /\ UNCHANGED <<env, cache, req, key, how, got, resp, del, put, stored, pureVars>>

\* a handler that wraps every answer other than 200 into an envelope
AfterRaceEnvelopes(response, e) ==
  IF ShouldCache(response)
    THEN [resp |-> CacheResponseOf(response, e),
          stored |-> Some(CacheResponseOf(response, e))]
    ELSE [resp |-> errorResponse(response.status, "Upstream error"),
          stored |-> None]

\* lines 315-404: the response returned for the result of the race, and the
\* response given to cache.put, if any
AfterRace(response, e) ==
  IF ShouldCache(response)
    THEN [resp |-> CacheResponseOf(response, e),
          stored |-> Some(CacheResponseOf(response, e))]
    ELSE [resp |-> NormalizeError(response), stored |-> None]

\* lines 315-404: what the handler does with the result of the race
Settle(r, response, why) ==
  /\ got' = [got EXCEPT ![r] = Some(response)]
  /\ how' = [how EXCEPT ![r] = why]
  /\ pc' = [pc EXCEPT ![r] = "done"]
  /\ resp' = [resp EXCEPT ![r] = Some(AfterRace(response, env).resp)]
  /\ IF AfterRace(response, env).stored # None
       THEN /\ stored' = [stored EXCEPT ![r] = AfterRace(response, env).stored]
            /\ put' = [put EXCEPT ![r] = "pending"]
            /\ cnt' = [cnt EXCEPT ![r].put = @ + 1]
       ELSE UNCHANGED <<stored, put, cnt>>

\* the upstream answers before the deadline
UpstreamRespond(r, u) ==
  /\ pc[r] = "fetch"
  /\ up[r] = "inflight"
  /\ up' = [up EXCEPT ![r] = "settled"]
  /\ Settle(r, u, "upstream")
  /\ UNCHANGED <<env, cache, req, key, del, pureVars>>

\* a handler that calls the upstream again when the call fails
UpstreamFailRetry(r, err) ==
  /\ pc[r] = "fetch"
  /\ up[r] = "inflight"
  /\ cnt[r].upstream < 3
  /\ cnt' = [cnt EXCEPT ![r].upstream = @ + 1]
  /\ UNCHANGED <<env, cache, req, pc, key, up, how, got, resp, del, put, stored, pureVars>>

\* the upstream call fails before the deadline: control goes to the catch block
UpstreamFail(r, err) ==
  /\ pc[r] = "fetch"
  /\ up[r] = "inflight"
  /\ up' = [up EXCEPT ![r] = "settled"]
  /\ resp' = [resp EXCEPT ![r] = Some(CatchResponse(err))]
  /\ how' = [how EXCEPT ![r] = "failed"]
  /\ pc' = [pc EXCEPT ![r] = "done"]
  /\ UNCHANGED <<env, cache, req, key, got, del, put, stored, cnt, pureVars>>

\* lines 307-312: the timer fires first; the upstream call stays in flight
Timeout(r) ==
  /\ pc[r] = "fetch"
  /\ up[r] = "inflight"
  /\ Settle(r, errorResponse(504, "Gateway Timeout"), "timeout")
  /\ UNCHANGED <<env, cache, req, key, up, del, pureVars>>

\* a handler that still stores the answer of an upstream call that lost the race
UpstreamLateStores(r, outcome) ==
  /\ pc[r] = "done"
  /\ up[r] = "inflight"
  /\ up' = [up EXCEPT ![r] = "settled"]
  /\ IF "status" \in DOMAIN outcome /\ outcome.status = 200
       THEN /\ stored' = [stored EXCEPT ![r] = Some(CacheResponseOf(outcome, env))]
            /\ put' = [put EXCEPT ![r] = "pending"]
            /\ cnt' = [cnt EXCEPT ![r].put = @ + 1]
       ELSE UNCHANGED <<stored, put, cnt>>
  /\ UNCHANGED <<env, cache, req, pc, key, how, got, resp, del, pureVars>>

\* the upstream call that lost the race ends, with an answer or a failure:
\* the race is settled already and nothing reads the outcome
UpstreamLate(r, outcome) ==
  /\ pc[r] = "done"
  /\ up[r] = "inflight"
  /\ up' = [up EXCEPT ![r] = "settled"]
  /\ UNCHANGED <<env, cache, req, pc, key, how, got, resp, del, put, stored, cnt, pureVars>>

\* the cache.delete of line 282 takes effect
ApplyDelete(r) ==
  /\ del[r] = "pending"
  /\ del' = [del EXCEPT ![r] = "applied"]
  /\ cache' = CacheDelete(cache, key[r][1])
  /\ UNCHANGED <<env, req, pc, key, up, how, got, resp, put, stored, cnt, pureVars>>

\* the cache.put of line 330 takes effect
ApplyPut(r) ==
  /\ put[r] = "pending"
  /\ put' = [put EXCEPT ![r] = "applied"]
  /\ cache' = CachePut(cache, key[r][1], stored[r][1])
  /\ UNCHANGED <<env, req, pc, key, up, how, got, resp, del, stored, cnt, pureVars>>

\* a handler that answers 500 when its cache write fails
FailPutSurfaces(r) ==
  /\ put[r] = "pending"
  /\ put' = [put EXCEPT ![r] = "failed"]
  /\ resp' = [resp EXCEPT ![r] = Some(errorResponse(500, "Proxy Error"))]
  /\ UNCHANGED <<env, cache, req, pc, key, up, how, got, del, stored, cnt, pureVars>>

\* the cache.put of line 330 fails: ctx.waitUntil swallows the rejection
FailPut(r) ==
  /\ put[r] = "pending"
  /\ put' = [put EXCEPT ![r] = "failed"]
  /\ UNCHANGED <<env, cache, req, pc, key, up, how, got, resp, del, stored, cnt, pureVars>>

Next ==
  \/ \E r \in Reqs, q \in MainRequests : Receive(r, q)
  \/ \E r \in Reqs : Bypass(r)
  \/ \E r \in Reqs : LookupHit(r)
  \/ \E r \in Reqs : LookupMiss(r)
  \/ \E r \in Reqs, u \in MainUpstream : UpstreamRespond(r, u)
  \/ \E r \in Reqs, err \in MainErrors : UpstreamFail(r, err)
  \/ \E r \in Reqs : Timeout(r)
  \/ \E r \in Reqs, outcome \in MainUpstream \cup MainErrors : UpstreamLate(r, outcome)
  \/ \E r \in Reqs : ApplyDelete(r)
  \/ \E r \in Reqs : ApplyPut(r)
  \/ \E r \in Reqs : FailPut(r)

Spec == Init /\ [][Next]_vars

----------------------------------------------------------------------------
(* Key derivation on its own: two requests under one configuration *)

KeyEnv == NormalizeEnv(Env0(Str("60"))).env

KeyPaths == { <<"/">> \o p : p \in SeqsUpTo({"x", "|"}, MaxPath) }

KeyBodies == { Some(b) : b \in SeqsUpTo({"1", "|"}, MaxBody) }

FormType == Some(<<FormMedia>>)

\* the requests the validator lets through, among GET without a body and
\* POST with a form body, reaching the worker under either of two host names
KeyRequests ==
  { q \in { Request(m, Url("https:", h, None, p, None),
                    RequestHeaders(Some(Token), None,
                                   IF b = None THEN None ELSE FormType, None), b) :
              m \in {GET, <<"g","e","t">>, POST}, h \in {"a", "b"},
              p \in KeyPaths, b \in {None} \cup KeyBodies } :
      Validate(q, KeyEnv) = None }

InitKey ==
  /\ env = KeyEnv
  /\ cache = <<>>
  /\ req = [r \in Reqs |-> None]
  /\ pc = [r \in Reqs |-> "idle"]
  /\ key = [r \in Reqs |-> None]
  /\ up = [r \in Reqs |-> "none"]
  /\ how = [r \in Reqs |-> "none"]
  /\ got = [r \in Reqs |-> None]
  /\ resp = [r \in Reqs |-> None]
  /\ del = [r \in Reqs |-> "none"]
  /\ put = [r \in Reqs |-> "none"]
  /\ stored = [r \in Reqs |-> None]
  /\ cnt = [r \in Reqs |-> NoCount]
  /\ kin \in KeyRequests \X KeyRequests
  /\ kout = <<>>
  /\ vin = <<>>
  /\ vout = <<>>
  /\ oin = <<>>
  /\ oout = <<>>
  /\ tin = <<>>
  /\ tout = <<>>
  /\ cin = <<>>
  /\ cout = <<>>
  /\ stale = [r \in Reqs |-> FALSE]

\* lines 263-271 for each of the two requests: the rewritten target URL and
\* the cache key
DeriveKeys ==
  /\ kin # <<>>
  /\ kout = <<>>
  /\ kout' = [i \in 1..2 |->
                [target |-> href(TargetUrl(kin[i], env)),
                 key |-> getCacheKey(TargetUrl(kin[i], env), kin[i])]]
  /\ UNCHANGED <<mainVars, kin, valVars, respVars, fwdVars, cfgVars, ordVars>>

NextKey == DeriveKeys

SpecKey == InitKey /\ [][NextKey]_vars

----------------------------------------------------------------------------
(* Properties *)

\* no-cache in some letter case, as a substring of the cache-control header
AsksNoCache(q) ==
  q.headers.cache_control \in {Some(NoCacheToken), Some(MixedNoCache)}

\* the request of r passed validation
Validated(r) == pc[r] # "idle" /\ how[r] \notin {"rejected", "threw"}

\* the body {http_status_code, response_map: {error_list: [{message}]}}
IsEnvelope(response, status_code, message) ==
  /\ response.status = status_code
  /\ response.headers.content_type = Some("application/json")
  /\ response.body.kind = "json"
  /\ response.body.doc.http_status_code = Some(status_code)
  /\ response.body.doc.error_list # None
  /\ response.body.doc.error_list[1].message = Some(message)

\* C1: whenever a cache write has been scheduled or has taken effect, the
\* request that scheduled it won its race with an upstream response of status
\* exactly 200 (not the synthetic 504, not a rejection, not a failure), and
\* every entry of the cache was written by such a request.
C1_OnlyUpstream200Stored ==
  /\ \A r \in Reqs :
       put[r] # "none" =>
         /\ how[r] = "upstream"
         /\ got[r] # None
         /\ got[r][1].status = 200
         /\ got[r][1].src = "upstream"
  /\ \A k \in DOMAIN cache :
       /\ cache[k].status = 200
       /\ cache[k].src = "upstream"
       /\ \E r \in Reqs :
            put[r] = "applied" /\ key[r] = Some(k) /\ stored[r] = Some(cache[k])

\* a cached entry beside a request for the same key whose upstream answered 500
C1_Witness ==
  \E r, o \in Reqs :
    /\ put[r] = "applied"
    /\ key[r][1] \in DOMAIN cache
    /\ how[o] = "upstream"
    /\ got[o][1].status = 500
    /\ key[o] = key[r]
    /\ put[o] = "none"

\* C2: a validated request whose cache-control contains no-cache in any
\* letter case performs no lookup, issues one delete for its key and issues
\* the upstream call, whatever the cache holds.
C2_NoCacheBypassesLookup ==
  \A r \in Reqs :
    (Validated(r) /\ pc[r] \in {"fetch", "done"} /\ AsksNoCache(req[r][1])) =>
      /\ cnt[r].lookup = 0
      /\ how[r] # "hit"
      /\ cnt[r].delete = 1
      /\ del[r] # "none"
      /\ cnt[r].upstream = 1
      /\ up[r] # "none"

\* a no-cache request with its upstream call in flight while the cache still
\* holds an entry for its key
C2_Witness ==
  \E r \in Reqs :
    /\ pc[r] = "fetch"
    /\ AsksNoCache(req[r][1])
    /\ key[r][1] \in DOMAIN cache

\* C3: a single no-cache request answered 200 by the upstream, alone in the
\* run: once its cache.delete and its cache.put have both taken effect, the
\* cache holds the response it stored under its key.
C3_RefreshLeavesFreshEntry ==
  \A r \in Reqs :
    ( /\ how[r] = "upstream"
      /\ AsksNoCache(req[r][1])
      /\ got[r][1].status = 200
      /\ del[r] = "applied"
      /\ put[r] = "applied"
      /\ \A o \in Reqs \ {r} : pc[o] = "idle" ) =>
      Match(cache, key[r][1]) = stored[r]

\* C4: a validated request without no-cache whose key is in the cache is
\* answered with the stored response as it is, issues no upstream call,
\* schedules neither a write nor a delete, and its lookup step leaves the
\* cache as it was.
C4_HitIsVerbatimAndInert ==
  /\ [](\A r \in Reqs :
          how[r] = "hit" =>
            /\ pc[r] = "done"
            /\ cnt[r].upstream = 0
            /\ up[r] = "none"
            /\ cnt[r].put = 0
            /\ put[r] = "none"
            /\ del[r] = "none")
  /\ [][\A r \in Reqs :
          ( /\ pc[r] = "cache"
            /\ pc'[r] # "cache"
            /\ ~AsksNoCache(req[r][1])
            /\ key[r][1] \in DOMAIN cache ) =>
            /\ resp'[r] = Some(cache[key[r][1]])
            /\ how'[r] = "hit"
            /\ cache' = cache]_vars

\* a request answered from the cache, after the upstream call of the request
\* that filled the cache
C4_Witness ==
  \E r, o \in Reqs :
    /\ how[r] = "hit"
    /\ resp[r] = stored[o]
    /\ cnt[o].upstream = 1
    /\ cnt[r].upstream = 0

\* the ttl of the configuration, as an integer
ConfiguredTtl == parseInt(env.ttl)[2]

\* C5: every entry of the cache has cache-control max-age=<ttl> for the
\* configured ttl and no expires header, whatever the upstream sent, and so
\* has every response served from the cache.
C5_EntriesCarryTtlOnly ==
  /\ \A k \in DOMAIN cache :
       /\ cache[k].headers.cache_control = Some(<<"max-age=", ConfiguredTtl>>)
       /\ cache[k].headers.expires = None
  /\ \A r \in Reqs :
       how[r] = "hit" =>
         /\ resp[r][1].headers.cache_control = Some(<<"max-age=", ConfiguredTtl>>)
         /\ resp[r][1].headers.expires = None

\* a response served from the cache whose upstream original carried its own
\* cache-control and expires headers
C5_Witness ==
  \E r, o \in Reqs :
    /\ how[r] = "hit"
    /\ resp[r] = stored[o]
    /\ got[o][1].headers.expires # None
    /\ got[o][1].headers.cache_control = Some(<<"no-store">>)

\* C6: two validated requests with the same upper-cased method, the same
\* rewritten target URL and the same body derive the same cache key.
C6_SameTargetSameKey ==
  kout # <<>> =>
    ( ( /\ toUpperCase(kin[1].method) = toUpperCase(kin[2].method)
        /\ kout[1].target = kout[2].target
        /\ OrEmpty(kin[1].body) = OrEmpty(kin[2].body) ) =>
      kout[1].key = kout[2].key )

\* C7: two validated requests that differ in upper-cased method, in
\* rewritten target URL or in body derive different cache keys.
C7_DistinctTriplesDistinctKeys ==
  kout # <<>> =>
    ( ( \/ toUpperCase(kin[1].method) # toUpperCase(kin[2].method)
        \/ kout[1].target # kout[2].target
        \/ OrEmpty(kin[1].body) # OrEmpty(kin[2].body) ) =>
      kout[1].key # kout[2].key )

\* C8: when the timer wins the race the client gets the 504 Gateway Timeout
\* envelope and no cache write is scheduled, and the late outcome of the
\* upstream call changes neither the response nor the cache nor the writes.
C8_TimeoutIsFinal ==
  /\ [](\A r \in Reqs :
          how[r] = "timeout" =>
            /\ IsEnvelope(resp[r][1], 504, "Gateway Timeout")
            /\ put[r] = "none"
            /\ stored[r] = None
            /\ cnt[r].put = 0)
  /\ [][\A r \in Reqs :
          (how[r] = "timeout" /\ up[r] = "inflight" /\ up'[r] # "inflight") =>
            /\ resp' = resp
            /\ cache' = cache
            /\ put' = put
            /\ stored' = stored]_vars

\* a timed-out request whose upstream call has ended since
C8_Witness ==
  \E r \in Reqs :
    /\ how[r] = "timeout"
    /\ up[r] = "settled"
    /\ IsEnvelope(resp[r][1], 504, "Gateway Timeout")

\* C9: a request issues at most one upstream call and schedules at most one
\* cache write; after a failed or timed-out call it has issued exactly one.
C9_OneCallOneWrite ==
  \A r \in Reqs :
    /\ cnt[r].upstream <= 1
    /\ cnt[r].put <= 1
    /\ (how[r] \in {"failed", "timeout"} => cnt[r].upstream = 1 /\ pc[r] = "done")

\* a request whose upstream call failed, and one that scheduled its write
C9_Witness ==
  \E r, o \in Reqs :
    /\ how[r] = "failed"
    /\ cnt[r].upstream = 1
    /\ cnt[o].put = 1

\* C10: a request answered 401, 426, 405, 406 or 400 by the validator has
\* issued no lookup, no delete, no write and no upstream call.
C10_RejectedTouchesNothing ==
  \A r \in Reqs :
    how[r] = "rejected" =>
      /\ resp[r][1].status \in {401, 426, 405, 406, 400}
      /\ cnt[r] = NoCount
      /\ del[r] = "none"
      /\ put[r] = "none"
      /\ up[r] = "none"
      /\ key[r] = None

\* a rejected no-cache request while the cache holds an entry
C10_Witness ==
  \E r \in Reqs :
    /\ how[r] = "rejected"
    /\ AsksNoCache(req[r][1])
    /\ resp[r][1].status = 400
    /\ DOMAIN cache # {}

----------------------------------------------------------------------------
(* Validation on its own: lines 134-256 applied to one request under one   *)
(* env, over every combination of the fields the validator reads.          *)

\* a WebDAV method whose name contains PATCH
PROPPATCH == <<"P","R","O","P","P","A","T","C","H">>

ValMethods == {GET, HEAD, DELETE, POST, PUT, PATCH, TRACE, PROPPATCH, toLowerCase(POST)}

\* a header or a search parameter: absent, present with the empty value, set
ValCredentials == {None, Some(<<>>), Some(Token)}

\* content-type: absent, empty, the two accepted media types, one with a
\* parameter, one followed by something other than ";", and another type
ValContentTypes ==
  {None, Some(<<>>), JSONType, FormType,
   Some(<<JSONMedia, ";", "charset=utf-8">>), Some(<<JSONMedia, "x">>),
   Some(<<"text/plain">>)}

\* no body, a body that is JSON, a body that is not
ValBodies == {None, Some(<<"1">>), Some(<<"|">>)}

ValRequests ==
  { Request(m, Url(p, "a", None, <<"/">>, b),
            RequestHeaders(a, None, c, None), d) :
      m \in ValMethods, p \in {"https:", "http:"}, a \in ValCredentials,
      b \in ValCredentials, c \in ValContentTypes, d \in ValBodies }

\* requireHTTPS and allowBinaryData, each left out or set by a string variable
ValEnvs ==
  { [Env0(Str("60")) EXCEPT !.requireHTTPS = h, !.allowBinaryData = a] :
      h \in {Undef, Str("false")}, a \in {Undef, Str("true")} }

InitVal ==
  /\ env \in ValEnvs
  /\ cache = <<>>
  /\ req = [r \in Reqs |-> None]
  /\ pc = [r \in Reqs |-> "idle"]
  /\ key = [r \in Reqs |-> None]
  /\ up = [r \in Reqs |-> "none"]
  /\ how = [r \in Reqs |-> "none"]
  /\ got = [r \in Reqs |-> None]
  /\ resp = [r \in Reqs |-> None]
  /\ del = [r \in Reqs |-> "none"]
  /\ put = [r \in Reqs |-> "none"]
  /\ stored = [r \in Reqs |-> None]
  /\ cnt = [r \in Reqs |-> NoCount]
  /\ kin = <<>>
  /\ kout = <<>>
  /\ vin \in { [request |-> q, env |-> env] : q \in ValRequests }
  /\ vout = <<>>
  /\ oin = <<>>
  /\ oout = <<>>
  /\ tin = <<>>
  /\ tout = <<>>
  /\ cin = <<>>
  /\ cout = <<>>
  /\ stale = [r \in Reqs |-> FALSE]

\* lines 134-256: the env is normalised, then the request is validated; the
\* verdict is the rejection, or None when the request goes on to the cache
ValidateStep ==
  /\ vout = <<>>
  /\ ~NormalizeEnv(env).threw
  /\ env' = NormalizeEnv(env).env
  /\ vout' = Some(Validate(vin.request, NormalizeEnv(env).env))
  /\ UNCHANGED <<cache, req, pc, key, up, how, got, resp, del, put, stored, cnt,
                 keyVars, vin, respVars, fwdVars, cfgVars, ordVars>>

NextVal == ValidateStep

SpecVal == InitVal /\ [][NextVal]_vars

----------------------------------------------------------------------------
(* The checks of the validator as the specification states them *)

\* absent, or present with the empty value
Blank == {None, Some(<<>>)}

AllowedMethods == {GET, HEAD, POST, PUT, PATCH, DELETE}

BodyMethods == {POST, PUT, PATCH}

\* content-type values naming JSON, and those naming JSON or a form,
\* parameters after ";" ignored
JSONTypes == {JSONType, Some(<<JSONMedia, ";", "charset=utf-8">>)}

AcceptableTypes == JSONTypes \cup {FormType}

\* the bodies that are JSON texts
ValidJSONBodies == {Some(<<"1">>)}

\* the configuration the request arrived under
HTTPSRequired(i) == i.env.requireHTTPS # Str("false")

BinaryAllowed(i) == i.env.allowBinaryData = Str("true")

AuthFails(i) ==
  i.request.headers.authorization \in Blank /\ i.request.url.bearer_token \in Blank

TransportFails(i) == HTTPSRequired(i) /\ i.request.url.protocol = "http:"

MethodFails(i) == toUpperCase(i.request.method) \notin AllowedMethods

BodyMissing(i) ==
  toUpperCase(i.request.method) \in BodyMethods /\ i.request.body = None

BodyUnexpected(i) ==
  toUpperCase(i.request.method) \notin BodyMethods /\ i.request.body # None

ContentTypeMissing(i) ==
  /\ i.request.body # None
  /\ ~BinaryAllowed(i)
  /\ i.request.headers.content_type \in Blank

ContentTypeRefused(i) ==
  /\ i.request.body # None
  /\ ~BinaryAllowed(i)
  /\ i.request.headers.content_type \notin Blank \cup AcceptableTypes

JSONFails(i) ==
  /\ i.request.body # None
  /\ ~BinaryAllowed(i)
  /\ i.request.headers.content_type \in JSONTypes
  /\ i.request.body \notin ValidJSONBodies

\* the request passes the authentication and the transport check
PastTransport(i) == ~AuthFails(i) /\ ~TransportFails(i)

\* status and message of a verdict, <<>> for a request that is let through
Rejection(v) ==
  IF v = None THEN <<>>
  ELSE <<v[1].status, v[1].body.doc.error_list[1].message[1]>>

\* the earliest failing check in the order authentication, transport, method,
\* body/method coherence, content-type, JSON
FirstFailure(i) ==
  IF AuthFails(i) THEN <<401, "Mismatched bearer token">>
  ELSE IF TransportFails(i) THEN <<426, "HTTPS is required">>
  ELSE IF MethodFails(i) THEN <<405, "Method not allowed">>
  ELSE IF BodyMissing(i) THEN <<406, "Body data expected">>
  ELSE IF BodyUnexpected(i) THEN <<406, "Body data not expected">>
  ELSE IF ContentTypeMissing(i)
    THEN <<406, "Content-Type is required for request type">>
  ELSE IF ContentTypeRefused(i)
    THEN <<406, "Content-Type not acceptable for request type">>
  ELSE IF JSONFails(i) THEN <<400, "JSON body not valid">>
  ELSE <<>>

\* C11: the validator answers with the status and message of the first check
\* that fails, in the order authentication (401), transport (426), method
\* (405), body/method coherence (406), content-type (406), JSON (400).
C11_FirstFailureWins ==
  vout # <<>> => Rejection(vout[1]) = FirstFailure(vin)

\* C12: past authentication and transport, a request whose upper-cased
\* method is not exactly GET, HEAD, POST, PUT, PATCH or DELETE is answered
\* 405 'Method not allowed'.
C12_OnlySixMethods ==
  vout # <<>> /\ PastTransport(vin) /\ MethodFails(vin) =>
    Rejection(vout[1]) = <<405, "Method not allowed">>

ContentTypeRejections ==
  { <<406, "Content-Type is required for request type">>,
    <<406, "Content-Type not acceptable for request type">> }

\* C13: a request without a body, or arriving with allowBinaryData true, is
\* never rejected because of its content-type, whether the header is present,
\* missing or of any value.
C13_BinaryLiftsContentTypeGate ==
  vout # <<>> /\ (BinaryAllowed(vin) \/ vin.request.body = None) =>
    Rejection(vout[1]) \notin ContentTypeRejections

\* a POST, PUT or PATCH with a body, past authentication and transport, while
\* allowBinaryData is false
GatedBody(i) ==
  /\ PastTransport(i)
  /\ toUpperCase(i.request.method) \in BodyMethods
  /\ i.request.body # None
  /\ ~BinaryAllowed(i)

\* C14 as stated: with allowBinaryData false a POST, PUT or PATCH with a body
\* is answered 406 'Content-Type is required for request type' when it has no
\* content-type header, and 406 'Content-Type not acceptable for request type'
\* when the header is present but names neither JSON nor a form.
C14_AbsentOrRefused ==
  vout # <<>> /\ GatedBody(vin) =>
    /\ vin.request.headers.content_type = None =>
         Rejection(vout[1]) = <<406, "Content-Type is required for request type">>
    /\ vin.request.headers.content_type \notin {None} \cup AcceptableTypes =>
         Rejection(vout[1]) = <<406, "Content-Type not acceptable for request type">>

\* C14 amended: the answer is 'Content-Type is required for request type' when
\* the header is absent or empty, and 'Content-Type not acceptable for request
\* type' when it is non-empty and names neither JSON nor a form.
C14_BlankOrRefused ==
  vout # <<>> /\ GatedBody(vin) =>
    /\ vin.request.headers.content_type \in Blank =>
         Rejection(vout[1]) = <<406, "Content-Type is required for request type">>
    /\ vin.request.headers.content_type \notin Blank \cup AcceptableTypes =>
         Rejection(vout[1]) = <<406, "Content-Type not acceptable for request type">>

\* a request whose content-type goes on after the JSON media type without a
\* ";" was refused
C14_Witness ==
  /\ vout # <<>>
  /\ GatedBody(vin)
  /\ vin.request.headers.content_type = Some(<<JSONMedia, "x">>)
  /\ Rejection(vout[1]) = <<406, "Content-Type not acceptable for request type">>

\* C15: past authentication and transport, among the allowed methods, exactly
\* the POST, PUT and PATCH requests without a body are answered 406 'Body data
\* expected' and exactly the GET, HEAD and DELETE requests with a body are
\* answered 406 'Body data not expected'.
C15_BodyMatchesMethod ==
  vout # <<>> /\ PastTransport(vin) /\ ~MethodFails(vin) =>
    /\ Rejection(vout[1]) = <<406, "Body data expected">> <=> BodyMissing(vin)
    /\ Rejection(vout[1]) = <<406, "Body data not expected">> <=> BodyUnexpected(vin)

\* a PATCH without a body was answered 'Body data expected'
C15_Witness ==
  /\ vout # <<>>
  /\ PastTransport(vin)
  /\ vin.request.method = PATCH
  /\ vin.request.body = None
  /\ Rejection(vout[1]) = <<406, "Body data expected">>

\* C16: a request is answered 400 'JSON body not valid' exactly when it is a
\* POST, PUT or PATCH past the earlier checks whose content-type names JSON,
\* whose body is not a JSON text, and allowBinaryData is false; a form body,
\* and any body under allowBinaryData, is never rejected for its content.
C16_JSONCheckedOnlyWhenJSON ==
  vout # <<>> =>
    ( Rejection(vout[1]) = <<400, "JSON body not valid">>
        <=> /\ PastTransport(vin)
            /\ toUpperCase(vin.request.method) \in BodyMethods
            /\ JSONFails(vin) )

\* a JSON request whose body does not parse was answered 400
C16_Witness ==
  /\ vout # <<>>
  /\ vin.request.headers.content_type \in JSONTypes
  /\ vin.request.body = Some(<<"|">>)
  /\ Rejection(vout[1]) = <<400, "JSON body not valid">>

\* C17 as stated: a request is answered 401 'Mismatched bearer token' exactly
\* when it has neither an authorization header nor a bearer_token parameter,
\* whatever their values, the empty value included.
C17_PresenceOnly ==
  vout # <<>> =>
    ( Rejection(vout[1]) = <<401, "Mismatched bearer token">>
        <=> /\ vin.request.headers.authorization = None
            /\ vin.request.url.bearer_token = None )

\* C17 amended: a request is answered 401 'Mismatched bearer token' exactly
\* when neither its authorization header nor its bearer_token parameter has a
\* non-empty value.
C17_NonEmptyCredential ==
  vout # <<>> =>
    (Rejection(vout[1]) = <<401, "Mismatched bearer token">> <=> AuthFails(vin))

\* a request with an empty authorization header and no bearer_token was
\* answered 401
C17_Witness ==
  /\ vout # <<>>
  /\ vin.request.headers.authorization = Some(<<>>)
  /\ vin.request.url.bearer_token = None
  /\ Rejection(vout[1]) = <<401, "Mismatched bearer token">>

----------------------------------------------------------------------------
(* The response path on its own: lines 134-170 and 305-433 applied to one  *)
(* outcome of an invocation: a rejection by the validator, an answer of    *)
(* the upstream, the timer, or an exception.                               *)

RespStatuses == {200, 404, 500}

RespTypes ==
  {None, Some("application/json"), Some("application/json; charset=utf-8"),
   Some("text/plain")}

\* the first element of response_map.error_list
ErrorListItems ==
  [message : {None, Some(""), Some("m")},
   http_status_code : {None, Some(0), Some(502), Some(42)},
   nested_message : {None, Some(""), Some("inner")}]

\* the JSON documents the upstream may send: threads absent, [] or null
RespDocs ==
  [threads : {None, Some("[]"), Some("null")},
   http_status_code : {None, Some(400)},
   error_list : {None} \cup { Some(e0) : e0 \in ErrorListItems }]

RespBodies ==
  { [kind |-> "json", doc |-> doc] : doc \in RespDocs }
    \cup {TextBody("oops"), [kind |-> "undecodable"]}

\* an answer of status 204 has an empty body
RespUpstream ==
  { UpstreamResponse(st, Headers(ct, None, None), b) :
      st \in RespStatuses, ct \in RespTypes, b \in RespBodies }
    \cup { UpstreamResponse(204, Headers(ct, None, None), TextBody("")) :
             ct \in RespTypes }

\* a cause object without a code
NoCode == "undefined"

CauseCodes ==
  {"ENOTFOUND", "ECONNREFUSED", "ECONNABORTED", "ETIMEDOUT",
   "UND_ERR_CONNECT_TIMEOUT", "UND_ERR_HEADERS_TIMEOUT", "ECONNRESET",
   "EHOSTUNREACH", "EAI_AGAIN", "UND_ERR_SOCKET", NoCode}

\* what the upstream call may throw: fetch's own error, with a cause or
\* without, and any other exception
RespErrorsThrown ==
  { FetchError(Some(c)) : c \in CauseCodes }
    \cup {FetchError(None), [message |-> "other", cause |-> None]}

Outcomes ==
  { [kind |-> "rejected", request |-> q] :
      q \in { m \in MainRequests : Validate(m, KeyEnv) # None } }
    \cup { [kind |-> "response", response |-> u] : u \in RespUpstream }
    \cup { [kind |-> "error", err |-> x] : x \in RespErrorsThrown }
    \cup { [kind |-> "timeout"] }

\* an env that fails the checks of lines 147-160
BadEnv == Env0(Str("0"))

InitResp ==
  /\ \/ env = Env0(Str("60")) /\ oin \in Outcomes
     \/ env = BadEnv /\ oin = [kind |-> "threw"]
  /\ cache = <<>>
  /\ req = [r \in Reqs |-> None]
  /\ pc = [r \in Reqs |-> "idle"]
  /\ key = [r \in Reqs |-> None]
  /\ up = [r \in Reqs |-> "none"]
  /\ how = [r \in Reqs |-> "none"]
  /\ got = [r \in Reqs |-> None]
  /\ resp = [r \in Reqs |-> None]
  /\ del = [r \in Reqs |-> "none"]
  /\ put = [r \in Reqs |-> "none"]
  /\ stored = [r \in Reqs |-> None]
  /\ cnt = [r \in Reqs |-> NoCount]
  /\ kin = <<>>
  /\ kout = <<>>
  /\ vin = <<>>
  /\ vout = <<>>
  /\ oout = <<>>
  /\ tin = <<>>
  /\ tout = <<>>
  /\ cin = <<>>
  /\ cout = <<>>
  /\ stale = [r \in Reqs |-> FALSE]

\* the client response of an invocation with the given outcome, and the
\* response it hands to cache.put, if any
Respond ==
  /\ oout = <<>>
  /\ env' = NormalizeEnv(env).env
  /\ oout' =
       Some(IF NormalizeEnv(env).threw
              THEN [resp |-> CatchResponse(ConfigError), stored |-> None]
            ELSE IF oin.kind = "rejected"
              THEN [resp |-> Validate(oin.request, NormalizeEnv(env).env)[1],
                    stored |-> None]
            ELSE IF oin.kind = "response"
              THEN AfterRace(oin.response, NormalizeEnv(env).env)
            ELSE IF oin.kind = "timeout"
              THEN AfterRace(errorResponse(504, "Gateway Timeout"),
                             NormalizeEnv(env).env)
            ELSE [resp |-> CatchResponse(oin.err), stored |-> None])
  /\ UNCHANGED <<cache, req, pc, key, up, how, got, resp, del, put, stored, cnt,
                 keyVars, valVars, oin, fwdVars, cfgVars, ordVars>>

NextResp == Respond

SpecResp == InitResp /\ [][NextResp]_vars

----------------------------------------------------------------------------
(* Claims about the response path *)

\* the upstream answered with a JSON document
AnsweredJSON(o) == o.kind = "response" /\ o.response.body.kind = "json"

\* C18 as stated: whenever the upstream returns a JSON body with a threads
\* field, the client receives 500 'Pipeline exited', whatever the upstream
\* status (200 included) and whatever the value of the field.
C18_ThreadsAlwaysExited ==
  oout # <<>> /\ AnsweredJSON(oin) /\ oin.response.body.doc.threads # None =>
    IsEnvelope(oout[1].resp, 500, "Pipeline exited")

\* C18 amended: whenever the upstream returns a status other than 200 with
\* content-type exactly application/json and a JSON body whose threads field
\* is present and not null, the client receives 500 'Pipeline exited'.
C18_ThreadsExitedOnError ==
  /\ oout # <<>>
  /\ AnsweredJSON(oin)
  /\ oin.response.status # 200
  /\ oin.response.headers.content_type = Some("application/json")
  /\ oin.response.body.doc.threads \notin {None, Some("null")}
  => IsEnvelope(oout[1].resp, 500, "Pipeline exited")

\* the upstream answered 404 with {"threads": []} and the client got 500
C18_Witness ==
  /\ oout # <<>>
  /\ AnsweredJSON(oin)
  /\ oin.response.status = 404
  /\ oin.response.body.doc.threads = Some("[]")
  /\ oin.response.body.doc.error_list = None
  /\ IsEnvelope(oout[1].resp, 500, "Pipeline exited")

\* the invocation ends in a failure: a rejection, an exception, the timeout,
\* or an upstream answer other than 200
Failure(o) ==
  \/ o.kind \in {"rejected", "threw", "timeout", "error"}
  \/ o.kind = "response" /\ o.response.status # 200

\* a body {http_status_code, response_map: {error_list: [{message}]}} under
\* content-type application/json
EnvelopeShaped(response) ==
  /\ response.headers.content_type = Some("application/json")
  /\ response.body.kind = "json"
  /\ response.body.doc.http_status_code # None
  /\ response.body.doc.error_list # None
  /\ response.body.doc.error_list[1].message # None

\* C19 as stated: every failure returned to the client has the ErrorEnvelope
\* body with content-type application/json.
C19_EveryFailureEnveloped ==
  oout # <<>> /\ Failure(oin) => EnvelopeShaped(oout[1].resp)

\* C19 amended: every failure returned to the client either has the
\* ErrorEnvelope body with content-type application/json or is an upstream
\* answer other than 200 handed on exactly as the upstream sent it.
C19_EnvelopedOrPassedOn ==
  oout # <<>> /\ Failure(oin) =>
    \/ EnvelopeShaped(oout[1].resp)
    \/ oin.kind = "response" /\ oout[1].resp = oin.response

\* an upstream 500 announced as JSON whose body is plain text reached the
\* client as an envelope carrying that text
C19_Witness ==
  /\ oout # <<>>
  /\ oin.kind = "response"
  /\ oin.response.status = 500
  /\ oin.response.body = TextBody("oops")
  /\ IsEnvelope(oout[1].resp, 500, "oops")

Unavailable == {"ENOTFOUND", "ECONNREFUSED", "ECONNABORTED"}

TimedOut ==
  {"ETIMEDOUT", "UND_ERR_CONNECT_TIMEOUT", "UND_ERR_HEADERS_TIMEOUT",
   "ECONNRESET", "EHOSTUNREACH", "EAI_AGAIN"}

\* C20: when the upstream call raises, the client gets 503 'Service
\* Unavailable', 504 'Gateway Timeout' or 502 'Bad Gateway' by the code of the
\* error's cause, 500 'Proxy Error' when the error has no cause, and nothing
\* is handed to the cache.
C20_ClassifiedByCause ==
  oout # <<>> /\ oin.kind = "error" =>
    /\ oout[1].stored = None
    /\ IF oin.err.cause = None
         THEN IsEnvelope(oout[1].resp, 500, "Proxy Error")
       ELSE IF oin.err.cause[1] \in Unavailable
         THEN IsEnvelope(oout[1].resp, 503, "Service Unavailable")
       ELSE IF oin.err.cause[1] \in TimedOut
         THEN IsEnvelope(oout[1].resp, 504, "Gateway Timeout")
       ELSE IsEnvelope(oout[1].resp, 502, "Bad Gateway")

\* a connection reset was answered 504 and left the cache alone
C20_Witness ==
  /\ oout # <<>>
  /\ oin.kind = "error"
  /\ oin.err.cause = Some("ECONNRESET")
  /\ IsEnvelope(oout[1].resp, 504, "Gateway Timeout")
  /\ oout[1].stored = None

----------------------------------------------------------------------------
(* Claims about the handler as a whole, continued *)

\* C21: for an upstream 200 the handler has returned its response when the
\* cache write is still pending, and that response stays the same when the
\* write succeeds and when it fails.
C21_WriteNeverReachesClient ==
  /\ [](\A r \in Reqs :
          put[r] # "none" =>
            /\ pc[r] = "done"
            /\ how[r] = "upstream"
            /\ got[r][1].status = 200
            /\ resp[r][1].status = 200
            /\ resp[r][1].body = got[r][1].body)
  /\ [][\A r \in Reqs :
          (put[r] = "pending" /\ put'[r] # "pending") =>
            /\ resp' = resp
            /\ pc' = pc
            /\ how' = how]_vars

\* a request answered 200 whose cache write failed
C21_Witness ==
  \E r \in Reqs :
    /\ put[r] = "failed"
    /\ how[r] = "upstream"
    /\ resp[r][1].status = 200

\* C23 as stated: on a cache miss answered 200 by the upstream the client
\* receives the status, headers and body the upstream sent.
C23_OkPassedUnchanged ==
  \A r \in Reqs :
    how[r] = "upstream" /\ got[r][1].status = 200 => resp[r][1] = got[r][1]

\* C23 amended: on a cache miss answered 200 by the upstream the client
\* receives the status and body the upstream sent and its headers, except
\* that cache-control reads max-age=<ttl> and expires is removed.
C23_OkPassedWithTtl ==
  \A r \in Reqs :
    how[r] = "upstream" /\ got[r][1].status = 200 =>
      /\ resp[r][1].status = 200
      /\ resp[r][1].body = got[r][1].body
      /\ resp[r][1].headers.content_type = got[r][1].headers.content_type
      /\ resp[r][1].headers.cache_control = Some(<<"max-age=", ConfiguredTtl>>)
      /\ resp[r][1].headers.expires = None

\* a 200 sent with cache-control: no-store and an expires header reached the
\* client on a miss
C23_Witness ==
  \E r \in Reqs :
    /\ how[r] = "upstream"
    /\ got[r][1].status = 200
    /\ got[r][1].headers.cache_control = Some(<<"no-store">>)
    /\ got[r][1].headers.expires # None
    /\ resp[r] # None

----------------------------------------------------------------------------
(* Claims about the normalisation of upstream answers *)

\* the upstream answered with a status other than 200 under content-type
\* exactly application/json
ErrorAsJSON(o) ==
  /\ o.kind = "response"
  /\ o.response.status # 200
  /\ o.response.headers.content_type = Some("application/json")

\* C24: a non-200 application/json answer whose body parses, has no threads
\* field and has response_map.error_list[0].message equal to the empty string
\* reaches the client as an envelope at the upstream status with message
\* 'Server returned empty response error message'.
C24_EmptyMessageNamed ==
  /\ oout # <<>>
  /\ ErrorAsJSON(oin)
  /\ oin.response.body.kind = "json"
  /\ oin.response.body.doc.threads = None
  /\ oin.response.body.doc.error_list # None
  /\ oin.response.body.doc.error_list[1].message = Some("")
  => IsEnvelope(oout[1].resp, oin.response.status,
                "Server returned empty response error message")

\* a 404 with an empty message, a nested status and a nested message was
\* answered 404 with the message about the empty message
C24_Witness ==
  /\ oout # <<>>
  /\ ErrorAsJSON(oin)
  /\ oin.response.status = 404
  /\ oin.response.body.kind = "json"
  /\ oin.response.body.doc.threads = None
  /\ oin.response.body.doc.error_list # None
  /\ oin.response.body.doc.error_list[1] =
       [message |-> Some(""), http_status_code |-> Some(502),
        nested_message |-> Some("inner")]
  /\ IsEnvelope(oout[1].resp, 404, "Server returned empty response error message")

\* error_list[0] of a parsed answer
First(o) == o.response.body.doc.error_list[1]

\* C25 as stated: a non-200 JSON answer whose error_list[0] carries a nested
\* http_status_code and a nested message reaches the client as an envelope
\* with the nested message and the nested status, else the outer
\* http_status_code, else 500.
C25_NestedErrorUnnested ==
  /\ oout # <<>>
  /\ ErrorAsJSON(oin)
  /\ oin.response.body.kind = "json"
  /\ oin.response.body.doc.error_list # None
  /\ First(oin).http_status_code # None
  /\ First(oin).nested_message # None
  => IsEnvelope(oout[1].resp,
                IF First(oin).http_status_code[1] # 0
                  THEN First(oin).http_status_code[1]
                ELSE IF oin.response.body.doc.http_status_code \notin {None, Some(0)}
                  THEN oin.response.body.doc.http_status_code[1]
                ELSE 500,
                First(oin).nested_message[1])

\* the statuses a response with a body can have
BodyStatuses == (200..599) \ {204, 205, 304}

\* C25 amended: when moreover the answer has no threads value other than null,
\* error_list[0].message is not the empty string, the nested status is not 0
\* and the nested message is not empty, the client receives an envelope with
\* the nested message and the nested status if that is a status a response
\* with a body can have, and 500 'Proxy Error' if it is not.
C25_NestedErrorAfterOtherRules ==
  /\ oout # <<>>
  /\ ErrorAsJSON(oin)
  /\ oin.response.body.kind = "json"
  /\ oin.response.body.doc.threads \in {None, Some("null")}
  /\ oin.response.body.doc.error_list # None
  /\ First(oin).message # Some("")
  /\ First(oin).http_status_code \notin {None, Some(0)}
  /\ First(oin).nested_message \notin {None, Some("")}
  => IF First(oin).http_status_code[1] \in BodyStatuses
       THEN IsEnvelope(oout[1].resp, First(oin).http_status_code[1],
                       First(oin).nested_message[1])
       ELSE IsEnvelope(oout[1].resp, 500, "Proxy Error")

\* a 500 whose outer status is 400 and whose nested error is 502 'inner' was
\* answered 502 'inner'
C25_Witness ==
  /\ oout # <<>>
  /\ ErrorAsJSON(oin)
  /\ oin.response.status = 500
  /\ oin.response.body.kind = "json"
  /\ oin.response.body.doc.http_status_code = Some(400)
  /\ oin.response.body.doc.error_list # None
  /\ First(oin).http_status_code = Some(502)
  /\ IsEnvelope(oout[1].resp, 502, "inner")

\* C26 as stated: a non-200 application/json answer whose body does not parse
\* as JSON reaches the client as an envelope at the upstream status whose
\* message is the body read as text.
C26_UnparsedWrapped ==
  /\ oout # <<>>
  /\ ErrorAsJSON(oin)
  /\ oin.response.body.kind # "json"
  => /\ EnvelopeShaped(oout[1].resp)
     /\ oout[1].resp.status = oin.response.status
     /\ oin.response.body.kind = "text" =>
          IsEnvelope(oout[1].resp, oin.response.status, oin.response.body.text)

\* C26 amended: such an answer reaches the client as an envelope at the
\* upstream status whose message is the body read as text when the body can
\* be read and the upstream status is one a response with a body can have,
\* and as 500 'Error decoding response from server' otherwise.
C26_UnparsedWrappedOrUndecodable ==
  /\ oout # <<>>
  /\ ErrorAsJSON(oin)
  /\ oin.response.body.kind # "json"
  => IF oin.response.body.kind = "text" /\ oin.response.status \in BodyStatuses
       THEN IsEnvelope(oout[1].resp, oin.response.status, oin.response.body.text)
       ELSE IsEnvelope(oout[1].resp, 500, "Error decoding response from server")

\* a 404 announced as JSON with a plain-text body was answered 404 with that
\* text as the message
C26_Witness ==
  /\ oout # <<>>
  /\ ErrorAsJSON(oin)
  /\ oin.response.status = 404
  /\ oin.response.body = TextBody("oops")
  /\ IsEnvelope(oout[1].resp, 404, "oops")

\* a parsed answer that none of the threads, empty-message and nested-error
\* rules applies to
RuleFree(doc) ==
  /\ doc.threads \in {None, Some("null")}
  /\ \/ doc.error_list = None
     \/ /\ doc.error_list[1].message # Some("")
        /\ \/ doc.error_list[1].http_status_code \in {None, Some(0)}
           \/ doc.error_list[1].nested_message \in {None, Some("")}

----------------------------------------------------------------------------
(* The handler under an invalid configuration *)

\* configurations outside the documented ranges: no targetHostname, a
\* targetPort that is no number in 0..65535, a targetProtocol other than http
\* and https, a ttl that is not positive, a negative requestTimeout
BadEnvs ==
  { [Env0(Str("60")) EXCEPT !.targetHostname = Undef],
    [Env0(Str("60")) EXCEPT !.targetPort = Str("70000")],
    [Env0(Str("60")) EXCEPT !.targetPort = Str("-1")],
    [Env0(Str("60")) EXCEPT !.targetPort = Str("abc")],
    [Env0(Str("60")) EXCEPT !.targetProtocol = Str("ftp")],
    [Env0(Str("60")) EXCEPT !.requestTimeout = Str("-1")],
    Env0(Str("0")),
    Env0(Str("-1")) }

InitBad ==
  /\ env \in BadEnvs
  /\ cache = <<>>
  /\ req = [r \in Reqs |-> None]
  /\ pc = [r \in Reqs |-> "idle"]
  /\ key = [r \in Reqs |-> None]
  /\ up = [r \in Reqs |-> "none"]
  /\ how = [r \in Reqs |-> "none"]
  /\ got = [r \in Reqs |-> None]
  /\ resp = [r \in Reqs |-> None]
  /\ del = [r \in Reqs |-> "none"]
  /\ put = [r \in Reqs |-> "none"]
  /\ stored = [r \in Reqs |-> None]
  /\ cnt = [r \in Reqs |-> NoCount]
  /\ kin = <<>>
  /\ kout = <<>>
  /\ vin = <<>>
  /\ vout = <<>>
  /\ oin = <<>>
  /\ oout = <<>>
  /\ tin = <<>>
  /\ tout = <<>>
  /\ cin = <<>>
  /\ cout = <<>>
  /\ stale = [r \in Reqs |-> FALSE]

SpecBad == InitBad /\ [][Next]_vars

\* C28: under an invalid configuration no request is served: no request
\* issues an upstream call, a cache lookup, a delete or a write, and the cache
\* stays as it was.
C28_InvalidConfigServesNothing ==
  /\ cache = <<>>
  /\ \A r \in Reqs :
       /\ cnt[r] = NoCount
       /\ up[r] = "none"
       /\ del[r] = "none"
       /\ put[r] = "none"

----------------------------------------------------------------------------
(* Forwarding on its own: lines 134-299 applied, in two invocations, to    *)
(* requests of the same content under one env object.                      *)

\* a body as the Request holds it: its bytes, and whether it has been read
Stream(body) == [bytes |-> body, used |-> FALSE]

\* a read of the request itself: its body is used up
ReadDirect(stream) == [stream EXCEPT !.used = TRUE]

\* request.clone().json() and request.clone().arrayBuffer(), lines 241 and
\* 271: the copy is read, the body of the request itself is not
ReadClone(stream) == stream

\* the body of the request after validation and key derivation
BodyAfterKey(request, e) ==
  LET s0 == Stream(request.body)
      s1 == IF /\ request.body # None
               /\ ~e.allowBinaryData[2]
               /\ OrEmpty(request.headers.content_type) # <<>>
               /\ OrEmpty(request.headers.content_type)[1] = JSONMedia
              THEN ReadClone(s0) ELSE s0
  IN  ReadClone(s1)

\* an outbound request that keeps the accept-encoding of the inbound one
TargetRequestKeepsEncoding(request, e) ==
  Request(request.method, TargetUrl(request, e), request.headers,
          BodyAfterKey(request, e).bytes)

\* lines 291-299: new Request(targetUrl, request) without accept-encoding
TargetRequest(request, e) ==
  Request(request.method, TargetUrl(request, e),
          [request.headers EXCEPT !.accept_encoding = None],
          BodyAfterKey(request, e).bytes)

\* method, content-type, body
FwdShapes ==
  { <<GET, None, None>>,
    <<POST, JSONType, Some(<<"1">>)>>,
    <<POST, JSONType, Some(<<"|">>)>>,
    <<POST, Some(<<"text/plain">>), Some(<<"|">>)>> }

FwdRequests ==
  { Request(sh[1], Url(p, "a", n, <<"/", "x">>, b),
            RequestHeaders(a, c, sh[2], g), sh[3]) :
      sh \in FwdShapes, p \in {"https:", "http:"}, n \in {None, Some(8443)},
      b \in {None, Some(Token)}, a \in {None, Some(Token)},
      c \in {None, Some(NoCacheToken)}, g \in {None, Some(<<"gzip">>)} }

FwdEnvs ==
  { [Env0(Str("60")) EXCEPT !.targetProtocol = tp, !.targetPort = tn,
                            !.targetPathPrefix = px, !.requireHTTPS = h,
                            !.allowBinaryData = a] :
      tp \in {Str("https"), Str("http")}, tn \in {Str("443"), Str("8443"), Num(80)},
      px \in {None, Some(<<>>), Some(<<"/", "p">>)}, h \in {Undef, Str("false")},
      a \in {Undef, Str("true")} }

InitFwd ==
  /\ env \in FwdEnvs
  /\ cache = <<>>
  /\ req = [r \in Reqs |-> None]
  /\ pc = [r \in Reqs |-> "idle"]
  /\ key = [r \in Reqs |-> None]
  /\ up = [r \in Reqs |-> "none"]
  /\ how = [r \in Reqs |-> "none"]
  /\ got = [r \in Reqs |-> None]
  /\ resp = [r \in Reqs |-> None]
  /\ del = [r \in Reqs |-> "none"]
  /\ put = [r \in Reqs |-> "none"]
  /\ stored = [r \in Reqs |-> None]
  /\ cnt = [r \in Reqs |-> NoCount]
  /\ kin = <<>>
  /\ kout = <<>>
  /\ vin = <<>>
  /\ vout = <<>>
  /\ oin = <<>>
  /\ oout = <<>>
  /\ tin \in { [request |-> q, env |-> env] : q \in FwdRequests }
  /\ tout = <<>>
  /\ cin = <<>>
  /\ cout = <<>>
  /\ stale = [r \in Reqs |-> FALSE]

\* lines 134-299 of one invocation: the env is normalised, the request
\* validated, and, when it passes, rewritten for the upstream; new Request
\* throws when the body of the inbound request has been read
Forward ==
  /\ Len(tout) < 2
  /\ ~NormalizeEnv(env).threw
  /\ env' = NormalizeEnv(env).env
  /\ tout' =
       Append(tout,
         LET e == NormalizeEnv(env).env
             v == Validate(tin.request, e)
         IN  IF v # None THEN [verdict |-> v, outbound |-> None, threw |-> FALSE]
             ELSE IF BodyAfterKey(tin.request, e).used
               THEN [verdict |-> v, outbound |-> None, threw |-> TRUE]
             ELSE [verdict |-> v, outbound |-> Some(TargetRequest(tin.request, e)),
                   threw |-> FALSE])
  /\ UNCHANGED <<cache, req, pc, key, up, how, got, resp, del, put, stored, cnt,
                 keyVars, valVars, respVars, tin, cfgVars, ordVars>>

NextFwd == Forward

SpecFwd == InitFwd /\ [][NextFwd]_vars

----------------------------------------------------------------------------
(* Claims about forwarding *)

\* the port a URL addresses: the one it names, or the default of its scheme
EffectivePort(u) == IF u.port = None THEN DefaultPort(u.protocol) ELSE u.port[1]

\* the scheme a configured targetProtocol stands for
ConfiguredScheme == IF env.targetProtocol = Str("https") THEN "https:" ELSE "http:"

\* the invocations that got as far as an outbound request
Forwarded == { i \in 1..Len(tout) : tout[i].outbound # None }

\* C22: the outbound request has the scheme, host and port of the
\* configuration, the path prefix (if set) followed by the inbound path, the
\* inbound query string, and the inbound method, body and headers, except
\* accept-encoding, which is absent.
C22_OutboundRewritten ==
  \A i \in Forwarded :
    LET o == tout[i].outbound[1]
        q == tin.request
    IN  /\ o.url.protocol = ConfiguredScheme
        /\ o.url.hostname = env.targetHostname[2]
        /\ EffectivePort(o.url) = env.targetPort[2]
        /\ o.url.pathname = OrEmpty(env.targetPathPrefix) \o q.url.pathname
        /\ o.url.bearer_token = q.url.bearer_token
        /\ o.method = q.method
        /\ o.body = q.body
        /\ o.headers.authorization = q.headers.authorization
        /\ o.headers.cache_control = q.headers.cache_control
        /\ o.headers.content_type = q.headers.content_type
        /\ o.headers.accept_encoding = None

\* C22 witness: a POST with a body and an accept-encoding header, arriving
\* over http on port 8443 with a bearer token, has been rewritten for an
\* https target on port 443 under a path prefix.
C22_Witness ==
  /\ Forwarded # {}
  /\ tin.request.method = POST
  /\ tin.request.body # None
  /\ tin.request.headers.accept_encoding # None
  /\ tin.request.url.protocol = "http:"
  /\ tin.request.url.port = Some(8443)
  /\ tin.request.url.bearer_token # None
  /\ env.targetProtocol = Str("https")
  /\ env.targetPort = Num(443)
  /\ env.targetPathPrefix # None

\* C29: validating the same request twice under the same configuration gives
\* the same verdict, and every invocation that lets the request through
\* builds its outbound request, whose body is the inbound body.
C29_ValidationRepeatableBodyKept ==
  /\ Len(tout) = 2 => tout[1].verdict = tout[2].verdict
  /\ \A i \in 1..Len(tout) :
       tout[i].verdict = None =>
         /\ ~tout[i].threw
         /\ tout[i].outbound # None
         /\ tout[i].outbound[1].body = tin.request.body

\* C29 witness: a request with a JSON body, whose validation parses the body,
\* has been let through twice under an env that the first invocation
\* normalised from strings.
C29_Witness ==
  /\ Len(tout) = 2
  /\ tout[1].verdict = None
  /\ tout[2].verdict = None
  /\ tin.request.body = Some(<<"1">>)
  /\ tin.request.headers.content_type = JSONType
  /\ tin.env.requireHTTPS = Str("false")
  /\ tin.env.allowBinaryData = Undef
  /\ env.requireHTTPS = Bool(FALSE)

----------------------------------------------------------------------------
(* The handler with the reads of the upstream body as steps of their own:  *)
(* fetch resolves with the status and headers of the answer, and lines     *)
(* 338 and 348 then await its body, after the race and without a timer.    *)

\* lines 331-338: the answers whose body the handler awaits
AwaitsBody(response) ==
  /\ ~ShouldCache(response)
  /\ response.headers.content_type = Some("application/json")

\* an upstream answer whose body the handler awaits, besides those of the
\* handler above
LiveUpstream ==
  MainUpstream \cup
    { UpstreamResponse(500, Headers(Some("application/json"), None, None),
                       TextBody("oops")) }

\* lines 305-338: fetch resolves before the deadline; the handler goes on
\* with lines 316-404 or, at line 338, waits for the body
UpstreamHeaders(r, u) ==
  /\ pc[r] = "fetch"
  /\ up[r] = "inflight"
  /\ up' = [up EXCEPT ![r] = "settled"]
  /\ IF AwaitsBody(u)
       THEN /\ got' = [got EXCEPT ![r] = Some(u)]
            /\ pc' = [pc EXCEPT ![r] = "read"]
            /\ UNCHANGED <<how, resp, stored, put, cnt>>
       ELSE Settle(r, u, "upstream")
  /\ UNCHANGED <<env, cache, req, key, del, pureVars>>

\* lines 338-404: the body has arrived and the handler goes on
BodyRead(r) ==
  /\ pc[r] = "read"
  /\ Settle(r, got[r][1], "upstream")
  /\ UNCHANGED <<env, cache, req, key, up, del, pureVars>>

NextLive ==
  \/ \E r \in Reqs, q \in MainRequests : Receive(r, q)
  \/ \E r \in Reqs : Bypass(r)
  \/ \E r \in Reqs : LookupHit(r)
  \/ \E r \in Reqs : LookupMiss(r)
  \/ \E r \in Reqs, u \in LiveUpstream : UpstreamHeaders(r, u)
  \/ \E r \in Reqs : BodyRead(r)
  \/ \E r \in Reqs, err \in MainErrors : UpstreamFail(r, err)
  \/ \E r \in Reqs : Timeout(r)
  \/ \E r \in Reqs, outcome \in MainUpstream \cup MainErrors : UpstreamLate(r, outcome)
  \/ \E r \in Reqs : ApplyDelete(r)
  \/ \E r \in Reqs : ApplyPut(r)
  \/ \E r \in Reqs : FailPut(r)

\* the timer of lines 307-312 fires if the race is still open: setTimeout
\* with a delay of (requestTimeout - 1) * 1000 >= 0 milliseconds
SpecLive == Init /\ [][NextLive]_vars /\ \A r \in Reqs : WF_vars(Timeout(r))

\* the race of a request is open
Racing(r) == pc[r] = "fetch" /\ up[r] = "inflight"

\* C30: every request that reaches the upstream call is eventually answered,
\* with the upstream outcome or the 504 envelope, under fairness of the timer
\* alone.
C30_FetchEventuallyAnswered ==
  \A r \in Reqs : Racing(r) ~> (pc[r] = "done" /\ resp[r] # None)

\* under fairness of the timer every open race is eventually settled: by the
\* timer, by a failure of the call, or by the status and headers of an answer
C30_RaceEventuallySettled ==
  \A r \in Reqs : Racing(r) ~> (pc[r] \in {"done", "read"})

\* a request is waiting, after the race, for the body of a JSON answer
\* other than 200
C30_AwaitingBody ==
  \E r \in Reqs : pc[r] = "read" /\ got[r] # None /\ AwaitsBody(got[r][1])

\* a request whose upstream never answered has been answered 504
C30_TimedOut ==
  \E r \in Reqs : /\ pc[r] = "done"
                  /\ how[r] = "timeout"
                  /\ up[r] = "inflight"
                  /\ resp[r] # None
                  /\ resp[r][1].status = 504

----------------------------------------------------------------------------
(* Configuration on its own: lines 134-313 of successive invocations on    *)
(* the one env object, which each of them coerces in place.                *)

\* invocations per run
MaxCalls == 2

\* the latency of an upstream call that is never answered
Never == -1

\* milliseconds the upstream takes to answer, if it answers
Latencies == {0, 1, 99000, 99001, Never}

\* line 310: (env.requestTimeout - 1) * 1000, without the subtraction
DeadlineWhole(e) ==
  IF e.requestTimeout = Huge THEN Huge ELSE Num(e.requestTimeout[2] * 1000)

\* line 310: (env.requestTimeout - 1) * 1000 milliseconds; 1e21 - 1 is 1e21
Deadline(e) ==
  IF e.requestTimeout = Huge THEN Huge ELSE Num((e.requestTimeout[2] - 1) * 1000)

\* lines 305-313: Promise.race of the upstream call and a timer that does not
\* fire before its delay has passed
RaceWinners(deadline, latency) ==
  IF latency = Never THEN {"timer"}
  ELSE IF deadline = Huge \/ latency < deadline[2] THEN {"upstream"}
  ELSE IF latency > deadline[2] THEN {"timer"}
  ELSE {"upstream", "timer"}

\* the fields of env that lines 136-170 coerce and default
Effective(e) ==
  [requireHTTPS |-> e.requireHTTPS, allowBinaryData |-> e.allowBinaryData,
   targetPort |-> e.targetPort, ttl |-> e.ttl, requestTimeout |-> e.requestTimeout]

\* requests whose verdict depends on requireHTTPS or allowBinaryData, and one
\* that passes under every configuration
CfgRequests ==
  { Request(GET, Url("https:", "a", None, <<"/">>, None),
            RequestHeaders(Some(Token), None, None, None), None),
    Request(GET, Url("http:", "a", None, <<"/">>, None),
            RequestHeaders(Some(Token), None, None, None), None),
    Request(POST, Url("https:", "a", None, <<"/">>, None),
            RequestHeaders(Some(Token), None, Some(<<"text/plain">>), None),
            Some(<<"|">>)) }

\* the environment as deployed: strings, numbers, or left out
CfgEnvs ==
  { [Env0(t) EXCEPT !.targetPort = n, !.requireHTTPS = h,
                    !.allowBinaryData = a, !.requestTimeout = x] :
      t \in {Num(61), Str("60s"), Str(HugeDigits)},
      n \in {Str("443"), Num(80), Str(HugeDigits)},
      h \in {Undef, Str("true"), Str("false"), Str("TRUE")},
      a \in {Undef, Str("true")},
      x \in {Undef, Str(""), Str("abc"), Str("0"), Num(0), Str("1"), Num(1),
             Str("2"), Num(100), Str("-1"), Str(HugeDigits)} }

InitCfg ==
  /\ env \in CfgEnvs
  /\ cache = <<>>
  /\ req = [r \in Reqs |-> None]
  /\ pc = [r \in Reqs |-> "idle"]
  /\ key = [r \in Reqs |-> None]
  /\ up = [r \in Reqs |-> "none"]
  /\ how = [r \in Reqs |-> "none"]
  /\ got = [r \in Reqs |-> None]
  /\ resp = [r \in Reqs |-> None]
  /\ del = [r \in Reqs |-> "none"]
  /\ put = [r \in Reqs |-> "none"]
  /\ stored = [r \in Reqs |-> None]
  /\ cnt = [r \in Reqs |-> NoCount]
  /\ kin = <<>>
  /\ kout = <<>>
  /\ vin = <<>>
  /\ vout = <<>>
  /\ oin = <<>>
  /\ oout = <<>>
  /\ tin = <<>>
  /\ tout = <<>>
  /\ cin \in { [request |-> q, env |-> env] : q \in CfgRequests }
  /\ cout = <<>>
  /\ stale = [r \in Reqs |-> FALSE]

\* what one invocation saw and decided
Call(threw, e, verdict, deadline, latency, winner) ==
  [threw |-> threw, seen |-> Effective(e), verdict |-> verdict,
   deadline |-> deadline, latency |-> latency, winner |-> winner]

\* lines 134-313 of one invocation, for a request that finds nothing cached:
\* the env is coerced, checked and defaulted, the request validated, and the
\* upstream call raced against the timer
Configure(latency) ==
  /\ Len(cout) < MaxCalls
  /\ env' = NormalizeEnv(env).env
  /\ \E winner \in {"none", "upstream", "timer"} :
       LET n == NormalizeEnv(env)
           v == Validate(cin.request, n.env)
       IN  /\ IF n.threw \/ v # None THEN winner = "none"
              ELSE winner \in RaceWinners(Deadline(n.env), latency)
           /\ cout' =
                Append(cout,
                  IF n.threw
                    THEN Call(TRUE, n.env, Some(CatchResponse(ConfigError)), None, None, winner)
                  ELSE IF v # None
                    THEN Call(FALSE, n.env, v, None, None, winner)
                  ELSE Call(FALSE, n.env, None, Some(Deadline(n.env)), Some(latency), winner))
  /\ UNCHANGED <<cache, req, pc, key, up, how, got, resp, del, put, stored, cnt,
                 keyVars, valVars, respVars, fwdVars, cin, ordVars>>

NextCfg == \E latency \in Latencies : Configure(latency)

SpecCfg == InitCfg /\ [][NextCfg]_vars

----------------------------------------------------------------------------
(* Claims about the configuration *)

\* the invocations that raced the upstream call against the timer
Raced == { i \in 1..Len(cout) : cout[i].deadline # None }

\* requestTimeout as deployed: unset, not a number, or zero
TimeoutUnset == {Undef, Str(""), Str("abc"), Str("0"), Num(0)}

\* C31: under every accepted configuration the deadline of the race is
\* requestTimeout - 1 seconds of the requestTimeout the invocation works
\* with, and is not negative; an unset, non-numeric or zero requestTimeout
\* gives 99 seconds and a requestTimeout of 1 gives 0 seconds; the upstream
\* call wins only if it completes no later than the deadline.
C31_DeadlineIsTimeoutLessOne ==
  \A i \in Raced :
    LET d == cout[i].deadline[1]
        t == cout[i].seen.requestTimeout
    IN  /\ t = Huge => d = Huge
        /\ t # Huge => IsNum(d) /\ d[2] >= 0 /\ d[2] = t[2] * 1000 - 1000
        /\ cin.env.requestTimeout \in TimeoutUnset => d = Num(99000)
        /\ cin.env.requestTimeout \in {Str("1"), Num(1)} => d = Num(0)
        /\ cout[i].winner = "upstream" =>
             /\ cout[i].latency[1] # Never
             /\ d = Huge \/ cout[i].latency[1] <= d[2]

\* C31 witness: under a requestTimeout of '1', or under one left unset, an
\* upstream call has won the race by answering at the deadline.
C31_Witness ==
  \E i \in Raced :
    /\ cin.env.requestTimeout \in {Str("1"), Undef}
    /\ cout[i].winner = "upstream"
    /\ cout[i].latency[1] \in {0, 99000}
    /\ cout[i].latency[1] = cout[i].deadline[1][2]

\* C35: every invocation on the env object works with the same requireHTTPS,
\* allowBinaryData, targetPort, ttl and requestTimeout as the first and
\* comes to the same verdict on the request.
C35_NormalisationIdempotent ==
  \A i, j \in 1..Len(cout) :
    /\ cout[i].seen = cout[j].seen
    /\ cout[i].threw = cout[j].threw
    /\ cout[i].verdict = cout[j].verdict

\* no variable is deployed as a number of 1e21
BelowHuge ==
  /\ cin.env.ttl # Str(HugeDigits)
  /\ cin.env.targetPort # Str(HugeDigits)
  /\ cin.env.requestTimeout # Str(HugeDigits)

\* with every variable below 1e21 the invocations do see the same values and
\* come to the same verdict
C35_IdempotentBelowHuge == BelowHuge => C35_NormalisationIdempotent

\* the second invocation works with a ttl of 1 where the first worked with 1e21
C35_TtlShrinks ==
  /\ Len(cout) = 2
  /\ cout[1].seen.ttl = Huge
  /\ cout[2].seen.ttl = Num(1)

\* the first invocation refuses a targetPort of 1e21 and the second accepts
\* it as port 1
C35_RefusedThenAccepted ==
  /\ Len(cout) = 2
  /\ cout[1].threw
  /\ ~cout[2].threw
  /\ cout[2].seen.targetPort = Num(1)

----------------------------------------------------------------------------
(* The handler with a record of which upstream calls had started when a    *)
(* no-cache request invalidated their key.                                 *)

\* lines 277-282, as Bypass: cache.delete is called and the upstream call
\* issued; the calls already issued for the same key are now older than the
\* most recent invalidation
BypassOrd(r) ==
  /\ pc[r] = "cache"
  /\ HasNoCache(req[r][1])
  /\ del' = [del EXCEPT ![r] = "pending"]
  /\ cnt' = [cnt EXCEPT ![r].delete = @ + 1, ![r].upstream = @ + 1]
  /\ StartFetch(r)
  /\ stale' = [x \in Reqs |->
                 IF x # r /\ up[x] # "none" /\ key[x] = key[r] THEN TRUE ELSE stale[x]]
  /\ UNCHANGED <<env, cache, req, key, how, got, resp, put, stored,
                 keyVars, valVars, respVars, fwdVars, cfgVars>>

NextOrd ==
  \/ \E r \in Reqs, q \in MainRequests : Receive(r, q)
  \/ \E r \in Reqs : BypassOrd(r)
  \/ \E r \in Reqs : LookupHit(r)
  \/ \E r \in Reqs : LookupMiss(r)
  \/ \E r \in Reqs, u \in MainUpstream : UpstreamRespond(r, u)
  \/ \E r \in Reqs, err \in MainErrors : UpstreamFail(r, err)
  \/ \E r \in Reqs : Timeout(r)
  \/ \E r \in Reqs, outcome \in MainUpstream \cup MainErrors : UpstreamLate(r, outcome)
  \/ \E r \in Reqs : ApplyDelete(r)
  \/ \E r \in Reqs : ApplyPut(r)
  \/ \E r \in Reqs : FailPut(r)

SpecOrd == Init /\ [][NextOrd]_vars

\* the cache.put of r takes effect in this step
PutLands(r) == put[r] = "pending" /\ put'[r] = "applied"

----------------------------------------------------------------------------
(* The handler for requests that differ in their credential only *)

OtherToken == <<"u">>

\* GET https://a/ under either of two credentials, and as a no-cache request
\* under the first
AuthRequests ==
  { Request(GET, Url("https:", "a", None, <<"/">>, None),
            RequestHeaders(Some(ac[1]), ac[2], None, None), None) :
      ac \in { <<Token, None>>, <<OtherToken, None>>, <<Token, Some(NoCacheToken)>> } }

NextAuth ==
  \/ \E r \in Reqs, q \in AuthRequests : Receive(r, q)
  \/ \E r \in Reqs : Bypass(r)
  \/ \E r \in Reqs : LookupHit(r)
  \/ \E r \in Reqs : LookupMiss(r)
  \/ \E r \in Reqs, u \in MainUpstream : UpstreamRespond(r, u)
  \/ \E r \in Reqs, err \in MainErrors : UpstreamFail(r, err)
  \/ \E r \in Reqs : Timeout(r)
  \/ \E r \in Reqs, outcome \in MainUpstream \cup MainErrors : UpstreamLate(r, outcome)
  \/ \E r \in Reqs : ApplyDelete(r)
  \/ \E r \in Reqs : ApplyPut(r)
  \/ \E r \in Reqs : FailPut(r)

SpecAuth == Init /\ [][NextAuth]_vars

\* the requests of r and f differ in the value of authorization and in
\* nothing else
DifferInCredentialOnly(r, f) ==
  /\ req[r] # None
  /\ req[f] # None
  /\ req[r][1].headers.authorization # req[f][1].headers.authorization
  /\ req[r][1].headers.authorization # None
  /\ req[f][1].headers.authorization # None
  /\ [req[r][1] EXCEPT !.headers.authorization = None]
       = [req[f][1] EXCEPT !.headers.authorization = None]

\* C33: two requests that differ in the value of the authorization header
\* only derive the same cache key, and a request answered from the cache
\* issues no upstream call and gets the response some other request stored
\* under that key, whatever the credentials of the two.
C33_CredentialNotInKey ==
  /\ \A r, f \in Reqs :
       DifferInCredentialOnly(r, f) /\ key[r] # None /\ key[f] # None =>
         key[r] = key[f]
  /\ \A r \in Reqs :
       how[r] = "hit" =>
         /\ cnt[r].upstream = 0
         /\ up[r] = "none"
         /\ \E f \in Reqs \ {r} :
              /\ key[f] = key[r]
              /\ put[f] = "applied"
              /\ resp[r] = stored[f]

\* C33 witness: a request has been answered from the cache with the response
\* stored by a request made under another credential.
C33_Witness ==
  \E r, f \in Reqs :
    /\ how[r] = "hit"
    /\ DifferInCredentialOnly(r, f)
    /\ put[f] = "applied"
    /\ resp[r] = stored[f]
    /\ cnt[r].upstream = 0

----------------------------------------------------------------------------
(* Claims about the handler's own failures *)

\* C34: whatever the request, the configuration, the upstream answer or the
\* exception thrown, the invocation ends with a response; a response the
\* handler generates itself has a status that a response with a body can be
\* constructed with, and carries that status as http_status_code in its body.
C34_AlwaysAnswersConsistently ==
  oout # <<>> =>
    LET o == oout[1].resp IN
      /\ o.status \in 200..599
      /\ o.src = "proxy" =>
           /\ o.status \in BodyStatuses
           /\ o.body.kind = "json"
           /\ o.body.doc.http_status_code = Some(o.status)

\* C34 witness: an upstream answer whose nested http_status_code is 42, with
\* which no response can be constructed, was answered 500 'Proxy Error' with
\* http_status_code 500.
C34_Witness ==
  /\ oout # <<>>
  /\ ErrorAsJSON(oin)
  /\ oin.response.body.kind = "json"
  /\ oin.response.body.doc.threads = None
  /\ oin.response.body.doc.error_list # None
  /\ First(oin).message = Some("m")
  /\ First(oin).http_status_code = Some(42)
  /\ First(oin).nested_message = Some("inner")
  /\ IsEnvelope(oout[1].resp, 500, "Proxy Error")
  /\ oout[1].resp.body.doc.http_status_code = Some(500)

====
